---- MODULE Spec2Model ----
(***************************************************************************)
(* Model of pydoll's human-like mouse control:                             *)
(*   pydoll/interactions/movement.py  (trajectory pipeline, pure)          *)
(*   pydoll/interactions/mouse.py     (MouseAPI: move, click, scroll, ...) *)
(*                                                                         *)
(* Numbers.  Python floats are modelled as fixed-point integers with two   *)
(* decimals: a coordinate v px is the integer v * Scale.  Durations are    *)
(* integers in milliseconds.  Results that are not on this grid (interior  *)
(* bezier points) are rounded down to it; values that the claims depend    *)
(* on (end points, indices, lengths, comparisons against 1 px) are exact.  *)
(* Random draws (random.randint, random.choice, random.gauss, ...) are     *)
(* nondeterministic choices over sampled values of their range.            *)
(***************************************************************************)
EXTENDS Integers, Sequences, FiniteSets, TLC

\* ---------------------------------------------------------------- numbers

\* Fixed-point scale: 1 px = Scale units (movement.py expresses its
\* sub-pixel distortion parameters in 1/100 px).
Scale == 100

\* Optional arguments: None is the empty tuple, a supplied value v is <<v>>.
None == <<>>

Some(v) == <<v>>

Val(o) == o[1]

Abs(v) == IF v < 0 THEN -v ELSE v

Max2(a, b) == IF a >= b THEN a ELSE b

Min2(a, b) == IF a <= b THEN a ELSE b

\* Floor division for a possibly negative numerator, positive denominator.
FloorDiv(a, b) == IF a >= 0 THEN a \div b ELSE -((-a + b - 1) \div b)

\* Python int(v) of a float given in fixed point: truncation toward zero,
\* result in whole units.
PyInt(v) == IF v >= 0 THEN v \div Scale ELSE -((-v) \div Scale)

\* b ** e with Python's 0 ** 0 = 1.
RECURSIVE Pow(_, _)
Pow(b, e) == IF e = 0 THEN 1 ELSE b * Pow(b, e - 1)

RECURSIVE Factorial(_)
Factorial(n) == IF n <= 1 THEN 1 ELSE n * Factorial(n - 1)

\* Integer square root (floor): the root of v is twice the root of v / 4, or
\* one more.
RECURSIVE ISqrt(_)
ISqrt(v) ==
    IF v < 2 THEN v
    ELSE CHOOSE s \in {r + e : r \in {2 * ISqrt(v \div 4)}, e \in {0, 1}} :
             s * s <= v /\ (s + 1) * (s + 1) > v

\* calculate_distance in fixed point: floor(Scale * sqrt(dx^2 + dy^2) / Scale).
\* Since floor(sqrt(d)) < Scale <=> d < Scale^2, the comparison against 1 px
\* is exact.
calculate_distance(p, q) ==
    LET dx == q[1] - p[1]
        dy == q[2] - p[2]
    IN  ISqrt(dx * dx + dy * dy)

\* ----------------------------------------------------------------- bounds

\* The coroutines that may call into one MouseAPI instance.
Tasks == {1, 2}

\* Largest knot count sampled from the randomizer's options 1..10.
MaxKnots == 2

\* Points offered to the API, in fixed point: (0, 0), (0.5, 0.5), (1, 0) and
\* (3, 0.5) px.  They are at distances below 1, exactly 1 and above 1 of each
\* other, and (0, 0) -> (3, 0.5) gives a curve with an interior sample.
Points == {<<0, 0>>, <<50, 50>>, <<100, 0>>, <<300, 50>>}

\* Durations offered to move_to, in ms (None = omitted).
Durations == {None, Some(0), Some(50), Some(100)}

\* Buttons and click counts offered to click.
Buttons == {"left", "right"}

ClickCounts == {1, 2}

\* Wheel deltas offered to scroll_wheel.
Deltas == {0, 100 * Scale}

\* <<offset, duration>> offered to move_by, in fixed point and ms; a call is
\* offered when its target is one of Points, which keeps CursorState on
\* Points.
MoveByCalls == {<<<<0, 0>>, None>>, <<<<50, 50>>, None>>, <<<<100, 0>>, Some(0)>>,
                <<<<300, 50>>, Some(50)>>, <<<<-200, -50>>, None>>}

\* <<point, button, click_count, move_duration>> offered to click(x, y).
ClickCalls == {<<<<0, 0>>, "left", 1, Some(50)>>, <<<<50, 50>>, "right", 2, None>>,
               <<<<100, 0>>, "left", 2, None>>, <<<<300, 50>>, "right", 1, Some(50)>>}

\* <<from, to, button, move_to_start_duration, drag_duration>> offered to
\* drag: the two points far apart, closer than 1 px, and the same point.
DragCalls == {<<<<0, 0>>, <<300, 50>>, "left", Some(0), Some(50)>>,
              <<<<300, 50>>, <<100, 0>>, "right", Some(50), None>>,
              <<<<100, 0>>, <<50, 50>>, "left", None, None>>,
              <<<<100, 0>>, <<100, 0>>, "right", None, Some(0)>>}

\* ------------------------------------------------------ random sampling

\* A random draw from a range of the randomizer is sampled at the least
\* value of the range.
Lowest(S) == {v \in S : \A u \in S : v <= u}

\* random.randint(a, b): an integer of a..b (both ends included), sampled
\* at the two ends.
RandInt(a, b) == {v \in a..b : v = a \/ v = b}

\* random.gauss(mean, stdev): mean + stdev * z; sampled at z = -1 and z = 1.
\* With stdev = 0 the result is the mean exactly.
RandGauss(mean, stdev) == {mean - stdev, mean + stdev}

\* random.random() < frequency, frequency in 1/100: random() lies in [0, 1),
\* so the test can succeed iff frequency > 0 and can fail iff frequency < 1.
RandBelow(frequency) == {b \in BOOLEAN : (b => frequency > 0) /\ (~b => frequency < Scale)}

\* --------------------------------------------------- Parameter Randomizer

\* _get_random_knots_count: random.choices over the options 1..10.
get_random_knots_count == 1..10

\* _get_random_target_points: a value of range(35,45), range(45,60) or
\* range(60,80).
get_random_target_points == (35..44) \cup (45..59) \cup (60..79)

\* _get_random_offset_boundary: float() of a value of range(5,15),
\* range(15,25) or range(25,35), independently for x and y.
get_random_offset_boundary ==
    LET R == (5..14) \cup (15..24) \cup (25..34)
    IN  {<<ox * Scale, oy * Scale>> : ox \in R, oy \in R}

\* Mutant: the frequency is left in percent, randint(10,25) not divided.
get_random_distortion_params_percent == (0..20) \X (20..40) \X {Scale * f : f \in 10..25}

\* _get_random_distortion_params: randint(0,20)/100, randint(20,40)/100,
\* randint(10,25)/100; mean and stdev in px (fixed point), frequency in 1/100.
get_random_distortion_params == (0..20) \X (20..40) \X (10..25)

\* random.uniform(a, b): a + (b - a) * random(), a value between the two
\* (in either order); sampled at both ends and every 100 units from the
\* lower one.
uniform(a, b) ==
    {v \in Min2(a, b)..Max2(a, b) : (v - Min2(a, b)) % 100 = 0 \/ v = Max2(a, b)}

\* Mutant: the range is 0.1 s wider at both ends.
generate_random_duration_wide(min_duration, max_duration) ==
    uniform(min_duration - 100, max_duration + 100)

\* _generate_random_duration(min, max): random.uniform(min, max), in ms.
\* The callers inside MouseAPI are sampled at the least value.
generate_random_duration(min_duration, max_duration) == uniform(min_duration, max_duration)

\* Default bounds of _generate_random_duration, in ms.
DefaultMinDuration == 600

DefaultMaxDuration == 1400

\* ------------------------------------------------ Control-Polygon Builder

\* generate_internal_knots: the set of knot lists the function can return.
\* Mutant: the boundaries are rounded down (math.floor) instead of int().
generate_internal_knots_floor(from_point, to_point, knots_count, offset_boundary_x, offset_boundary_y) ==
    LET left_boundary == FloorDiv(Min2(from_point[1], to_point[1]) - offset_boundary_x, Scale)
        right0 == FloorDiv(Max2(from_point[1], to_point[1]) + offset_boundary_x, Scale)
        down_boundary == FloorDiv(Min2(from_point[2], to_point[2]) - offset_boundary_y, Scale)
        up0 == FloorDiv(Max2(from_point[2], to_point[2]) + offset_boundary_y, Scale)
        right_boundary == IF left_boundary >= right0 THEN left_boundary + 1 ELSE right0
        up_boundary == IF down_boundary >= up0 THEN down_boundary + 1 ELSE up0
        Knot == {<<x * Scale, y * Scale>> :
                    x \in RandInt(left_boundary, right_boundary),
                    y \in RandInt(down_boundary, up_boundary)}
    IN  [1..knots_count -> Knot]

generate_internal_knots(from_point, to_point, knots_count, offset_boundary_x, offset_boundary_y) ==
    LET left_boundary == PyInt(Min2(from_point[1], to_point[1]) - offset_boundary_x)
        right0 == PyInt(Max2(from_point[1], to_point[1]) + offset_boundary_x)
        down_boundary == PyInt(Min2(from_point[2], to_point[2]) - offset_boundary_y)
        up0 == PyInt(Max2(from_point[2], to_point[2]) + offset_boundary_y)
        right_boundary == IF left_boundary >= right0 THEN left_boundary + 1 ELSE right0
        up_boundary == IF down_boundary >= up0 THEN down_boundary + 1 ELSE up0
        Knot == {<<x * Scale, y * Scale>> :
                    x \in RandInt(left_boundary, right_boundary),
                    y \in RandInt(down_boundary, up_boundary)}
    IN  [1..knots_count -> Knot]

\* ---------------------------------------------------------- Bezier Sampler

\* _binomial(n, k) = n! / (k! (n-k)!)
binomial(n, k) == Factorial(n) \div (Factorial(k) * Factorial(n - k))

RECURSIVE SumTo(_, _)
SumTo(f, n) == IF n < 0 THEN 0 ELSE f[n] + SumTo(f, n - 1)

\* _bernstein_polynomial(points)(t) at t = i / d, coordinate c: the sum over
\* the control points of binomial(n,j) t^j (1-t)^(n-j) point[c], rounded
\* down to the fixed-point grid.  At i = 0 and i = d it is exact.
bernstein(control_points, i, d, c) ==
    LET n == Len(control_points) - 1
        term == [j \in 0..n |->
                    binomial(n, j) * Pow(i, j) * Pow(d - i, n - j) * control_points[j + 1][c]]
    IN  FloorDiv(SumTo(term, n), Pow(d, n))

\* Mutant: t = i / num_points, which never reaches 1.
BezierParamShort(i, num_points) == <<i, num_points>>

\* The parameter t = i / (num_points - 1) of the i-th sample, as the pair
\* <<numerator, denominator>>.
BezierParam(i, num_points) == <<i, num_points - 1>>

\* Mutant: at least three samples.
generate_bezier_curve_points_three(from_point, to_point, internal_knots) ==
    LET num_points == Max2(Max2(Abs(PyInt(from_point[1] - to_point[1])),
                                Abs(PyInt(from_point[2] - to_point[2]))), 3)
        control_points == <<from_point>> \o internal_knots \o <<to_point>>
    IN  [i \in 1..num_points |->
            LET t == BezierParam(i - 1, num_points)
            IN  <<bernstein(control_points, t[1], t[2], 1),
                  bernstein(control_points, t[1], t[2], 2)>>]

generate_bezier_curve_points(from_point, to_point, internal_knots) ==
    LET num_points == Max2(Max2(Abs(PyInt(from_point[1] - to_point[1])),
                                Abs(PyInt(from_point[2] - to_point[2]))), 2)
        control_points == <<from_point>> \o internal_knots \o <<to_point>>
    IN  [i \in 1..num_points |->
            LET t == BezierParam(i - 1, num_points)
            IN  <<bernstein(control_points, t[1], t[2], 1),
                  bernstein(control_points, t[1], t[2], 2)>>]

\* ------------------------------------------------- Tremor (Distortion) Stage

\* Mutant: the loop starts one point late, range(2, len(points) - 1).
apply_distortion_late(points, distortion_mean, distortion_stdev, distortion_frequency) ==
    LET frequency == IF ~(0 <= distortion_frequency /\ distortion_frequency <= Scale)
                     THEN 50 ELSE distortion_frequency
        Interior == 3..(Len(points) - 1)
        Draw == {<<hit, delta>> : hit \in RandBelow(frequency),
                                  delta \in RandGauss(distortion_mean, distortion_stdev)}
        Shift(i, dr) == <<points[i][1],
                          IF dr[1] THEN points[i][2] + dr[2] ELSE points[i][2]>>
    IN  {<<points[1]>> \o [i \in 1..(Len(points) - 2) |->
                              IF i + 1 \in Interior THEN Shift(i + 1, draw[i + 1])
                                                    ELSE points[i + 1]]
                       \o <<points[Len(points)]>> : draw \in [Interior -> Draw]}

\* Mutant: the delta is added to x as well.
apply_distortion_xy(points, distortion_mean, distortion_stdev, distortion_frequency) ==
    LET frequency == IF ~(0 <= distortion_frequency /\ distortion_frequency <= Scale)
                     THEN 50 ELSE distortion_frequency
        Interior == 2..(Len(points) - 1)
        Draw == {<<hit, delta>> : hit \in RandBelow(frequency),
                                  delta \in RandGauss(distortion_mean, distortion_stdev)}
        Shift(i, dr) == <<IF dr[1] THEN points[i][1] + dr[2] ELSE points[i][1],
                          IF dr[1] THEN points[i][2] + dr[2] ELSE points[i][2]>>
    IN  {<<points[1]>> \o [i \in 1..(Len(points) - 2) |-> Shift(i + 1, draw[i + 1])]
                       \o <<points[Len(points)]>> : draw \in [Interior -> Draw]}

\* Mutant: an out-of-range frequency is moved to the nearest bound.
apply_distortion_nearest(points, distortion_mean, distortion_stdev, distortion_frequency) ==
    LET frequency == IF distortion_frequency < 0 THEN 0
                     ELSE IF distortion_frequency > Scale THEN Scale
                     ELSE distortion_frequency
        Interior == 2..(Len(points) - 1)
        Draw == {<<hit, delta>> : hit \in RandBelow(frequency),
                                  delta \in RandGauss(distortion_mean, distortion_stdev)}
        Shift(i, dr) == <<points[i][1],
                          IF dr[1] THEN points[i][2] + dr[2] ELSE points[i][2]>>
    IN  {<<points[1]>> \o [i \in 1..(Len(points) - 2) |-> Shift(i + 1, draw[i + 1])]
                       \o <<points[Len(points)]>> : draw \in [Interior -> Draw]}

\* apply_distortion: the set of lists the function can return for a
\* non-empty input (points[0] raises IndexError on an empty one).
\* distortion_frequency is in 1/100.
apply_distortion(points, distortion_mean, distortion_stdev, distortion_frequency) ==
    LET frequency == IF ~(0 <= distortion_frequency /\ distortion_frequency <= Scale)
                     THEN 50 ELSE distortion_frequency
        Interior == 2..(Len(points) - 1)
        Draw == {<<hit, delta>> : hit \in RandBelow(frequency),
                                  delta \in RandGauss(distortion_mean, distortion_stdev)}
        Shift(i, dr) == <<points[i][1],
                          IF dr[1] THEN points[i][2] + dr[2] ELSE points[i][2]>>
    IN  {<<points[1]>> \o [i \in 1..(Len(points) - 2) |-> Shift(i + 1, draw[i + 1])]
                       \o <<points[Len(points)]>> : draw \in [Interior -> Draw]}

\* ------------------------------------------------- Easing / Resampling Stage

\* MouseMovement.EASING_MIDPOINT, in 1/100 (pydoll/constants.py).
EASING_MIDPOINT == 50

\* sin(pi t / 2) for t = i / d in [0, 1], as <<numerator, denominator>>:
\* Bhaskara's rational approximation 4 t (2 - t) / (5 - t (2 - t)), exact at
\* t = 0 and t = 1 (absolute error below 0.002 in between).
SinHalfPi(i, d) == <<4 * i * (2 * d - i), 5 * d * d - i * (2 * d - i)>>

\* sqrt(1 - t^2) for t = n / d in [-1, 1], as <<numerator, denominator>>:
\* the root rounded down to a multiple of 1 / (Scale d), exact at t = 0 and
\* |t| = 1.
SqrtOneMinusSq(n, d) ==
    <<CHOOSE r \in 0..(Scale * d) :
          /\ r * r <= Scale * Scale * (d * d - n * n)
          /\ (r + 1) * (r + 1) > Scale * Scale * (d * d - n * n),
      Scale * d>>

\* 2 ** (-n / d) for n >= 0, as <<numerator, denominator>>: with
\* n = q d + r it is 2^-q 2^(-r/d), and 2^(-r/d) is taken on the chord
\* 1 - r / (2 d) of 2^-x over [0, 1]; exact when d divides n (absolute error
\* below 0.05 otherwise).
Pow2Neg(n, d) == <<2 * d - (n % d), 2 * d * Pow(2, n \div d)>>

\* The easing functions of the catalog, evaluated at t = i / d; the value is
\* the fraction <<numerator, denominator>>, denominator > 0.
Eased(f, i, d) ==
    CASE f = "linear" -> <<i, d>>
      [] f = "ease_out_quad" -> <<-i * (i - 2 * d), d * d>>
      [] f = "ease_out_cubic" -> <<(i - d) * (i - d) * (i - d) + d * d * d, d * d * d>>
      [] f = "ease_out_sine" -> SinHalfPi(i, d)
      [] f = "ease_in_out_sine" ->
            \* -(cos(pi t) - 1) / 2 = sin(pi t / 2)^2
            <<SinHalfPi(i, d)[1] * SinHalfPi(i, d)[1], SinHalfPi(i, d)[2] * SinHalfPi(i, d)[2]>>
      [] f = "ease_in_out_cubic" ->
            IF Scale * i < EASING_MIDPOINT * d
            THEN <<4 * i * i * i, d * d * d>>
            ELSE <<(2 * i - 2 * d) * (2 * i - 2 * d) * (2 * i - 2 * d) + 2 * d * d * d,
                   2 * d * d * d>>
      [] f = "ease_out_quart" -> <<Pow(d, 4) - Pow(i - d, 4), Pow(d, 4)>>
      [] f = "ease_out_quint" -> <<Pow(i - d, 5) + Pow(d, 5), Pow(d, 5)>>
      [] f = "ease_out_expo" ->
            IF i # d
            THEN <<Pow2Neg(10 * i, d)[2] - Pow2Neg(10 * i, d)[1], Pow2Neg(10 * i, d)[2]>>
            ELSE <<1, 1>>
      [] f = "ease_out_circ" -> SqrtOneMinusSq(i - d, d)
      [] f = "ease_in_out_quart" ->
            IF Scale * i < EASING_MIDPOINT * d
            THEN <<8 * Pow(i, 4), Pow(d, 4)>>
            ELSE <<Pow(d, 4) - 8 * Pow(i - d, 4), Pow(d, 4)>>
      [] f = "ease_in_out_quint" ->
            IF Scale * i < EASING_MIDPOINT * d
            THEN <<16 * Pow(i, 5), Pow(d, 5)>>
            ELSE <<Pow(2 * i - 2 * d, 5) + 2 * Pow(d, 5), 2 * Pow(d, 5)>>
      [] f = "ease_in_out_expo" ->
            IF i = 0 THEN <<0, 1>>
            ELSE IF i = d THEN <<1, 1>>
            ELSE IF Scale * i < EASING_MIDPOINT * d
            THEN <<Pow2Neg(10 * d - 20 * i, d)[1], 2 * Pow2Neg(10 * d - 20 * i, d)[2]>>
            ELSE <<2 * Pow2Neg(20 * i - 10 * d, d)[2] - Pow2Neg(20 * i - 10 * d, d)[1],
                   2 * Pow2Neg(20 * i - 10 * d, d)[2]>>
      [] f = "ease_in_out_circ" ->
            IF Scale * i < EASING_MIDPOINT * d
            THEN <<SqrtOneMinusSq(2 * i, d)[2] - SqrtOneMinusSq(2 * i, d)[1],
                   2 * SqrtOneMinusSq(2 * i, d)[2]>>
            ELSE <<SqrtOneMinusSq(2 * d - 2 * i, d)[1] + SqrtOneMinusSq(2 * d - 2 * i, d)[2],
                   2 * SqrtOneMinusSq(2 * d - 2 * i, d)[2]>>

\* The easing functions defined in movement.py.
EasingCatalog ==
    {"linear", "ease_out_quad", "ease_out_cubic", "ease_out_quart", "ease_out_quint",
     "ease_out_sine", "ease_out_expo", "ease_out_circ", "ease_in_out_cubic",
     "ease_in_out_quart", "ease_in_out_quint", "ease_in_out_sine", "ease_in_out_expo",
     "ease_in_out_circ"}

\* _get_random_easing_function: random.choice over the list (linear twice).
get_random_easing_function ==
    {"linear", "ease_out_sine", "ease_out_quad", "ease_out_cubic",
     "ease_in_out_sine", "ease_in_out_cubic"}

\* Easing functions of the caller's own, outside the catalog: t -> 2 t, whose
\* values leave [0, 1] upward, and t -> -t, whose values leave it downward.
CustomEasings == {"twice", "negated"}

\* eased_progress = easing_func(progress) at progress = i / d, for a function
\* of the catalog or one of the caller's.
EasedBy(f, i, d) ==
    IF f = "twice" THEN <<2 * i, d>>
    ELSE IF f = "negated" THEN <<-i, d>>
    ELSE Eased(f, i, d)

\* Mutant: the progress of the i-th output is i / target_points.
EasingIndexOpen(f, i, target_points, len) ==
    LET e == EasedBy(f, i, target_points)
        num == e[1] * (len - 1)
    IN  IF num >= 0 THEN num \div e[2] ELSE -((-num) \div e[2])

\* int(eased_progress * (len(points) - 1)) for the i-th output (i from 0)
\* of target_points outputs: truncation toward zero of the exact product.
EasingIndex(f, i, target_points, len) ==
    LET e == EasedBy(f, i, target_points - 1)
        num == e[1] * (len - 1)
    IN  IF num >= 0 THEN num \div e[2] ELSE -((-num) \div e[2])

\* Mutant: the clamp raises target_points to 3.
ClampTargetPointsThree(target_points) == Max2(target_points, 3)

\* target_points = max(target_points, 2)
ClampTargetPoints(target_points) == Max2(target_points, 2)

\* points[index] raises IndexError unless -len <= index < len.
EasingRaises(points, target_points, f) ==
    \E i \in 0..(ClampTargetPoints(target_points) - 1) :
        LET index == EasingIndex(f, i, ClampTargetPoints(target_points), Len(points))
        IN  ~(-Len(points) <= index /\ index < Len(points))

\* Mutant: the outputs are selected from the last progress value to the
\* first.
apply_easing_backward(points, target_points, f) ==
    [i \in 1..ClampTargetPoints(target_points) |->
        LET index == EasingIndex(f, ClampTargetPoints(target_points) - i,
                                 ClampTargetPoints(target_points), Len(points))
        IN  IF index >= 0 THEN points[index + 1] ELSE points[Len(points) + index + 1]]

\* apply_easing with the easing function f (defined when it does not raise);
\* a negative index counts from the end of the list, as in Python.
apply_easing(points, target_points, f) ==
    [i \in 1..ClampTargetPoints(target_points) |->
        LET index == EasingIndex(f, i - 1, ClampTargetPoints(target_points), Len(points))
        IN  IF index >= 0 THEN points[index + 1] ELSE points[Len(points) + index + 1]]

\* ------------------------------------------------------------------ state

VARIABLES
    cur,        \* CursorState: <<_current_x, _current_y>>
    humanize,   \* _humanize, read once in __init__
    browser,    \* tab._browser.humanize_mouse_movement (optional: None when the
                \* browser has no such attribute)
    serial,     \* TRUE: the callers serialize their calls on the instance
    sink,       \* the point of the latest mouseMoved command the sink received
                \* (optional: None when it has received none), or Unwatched
                \* when the sink keeps no record of what it receives
    pc,         \* per coroutine: the stage of its call
    op,         \* per coroutine: the API method it is running
    dest,       \* per coroutine: (x, y) of move_to / to_point
    duration,   \* per coroutine: duration of move_to (optional, ms)
    start,      \* per coroutine: from_point, CursorState as read by move_to
    args,       \* per coroutine: parameters of generate_human_mouse_trajectory
    knots,      \* per coroutine: internal_knots
    points,     \* per coroutine: the list `points` of the pipeline
    trajectory, \* per coroutine: trajectory given to _execute_trajectory
    sent,       \* per coroutine: points of the trajectory dispatched so far
    slept,      \* per coroutine: the sum of the delays its playback has slept,
                \* <<numerator, denominator>> in ms
    pending,    \* per coroutine: commands built but not yet dispatched
    gesture,    \* per coroutine: the arguments of move_by, and those of drag kept
                \* across its two moves
    log,        \* per coroutine: commands its current call has sent to the sink
    position,   \* result of the latest call, when it was get_position
    lastMoved   \* the point the latest call was to put the cursor at: the
                \* destination of a move_to that returned after moving, or the
                \* argument of set_position (followed by get_position calls only)

vars == <<cur, humanize, browser, serial, sink, pc, op, dest, duration, start, args, knots,
          points, trajectory, sent, slept, pending, gesture, log, position, lastMoved>>

\* Variables local to one call.
locals == <<op, dest, duration, start, args, knots, points, trajectory, sent, slept, pending,
           gesture>>

\* MouseMovement.STEPS_PER_SECOND (pydoll/constants.py).
STEPS_PER_SECOND == 60

\* InputCommands.dispatch_mouse_event(type, x, y, ...): the command as sent.
MouseEvent(type, p, button, click_count, delta_x, delta_y) ==
    [type |-> type, x |-> p[1], y |-> p[2], button |-> button,
     clickCount |-> click_count, deltaX |-> delta_x, deltaY |-> delta_y]

MoveEvent(p) == MouseEvent("mouseMoved", p, "none", 0, 0, 0)

NoArgs == [knots_count |-> None, distortion_mean |-> None, distortion_stdev |-> None,
           distortion_frequency |-> None, target_points |-> None,
           offset_boundary_x |-> None, offset_boundary_y |-> None,
           easing_func |-> None]

Origin == <<0, 0>>

\* No delay slept yet.
NoDelay == <<0, 1>>

\* A sink that keeps no record of the commands it receives.
Unwatched == <<"unwatched">>

\* The record of the sink after it has received a mouseMoved command at p.
Delivered(p) == IF sink = Unwatched THEN sink ELSE Some(p)

\* getattr(object, name, default) of an optional attribute.
GetAttr(attribute, default) == IF attribute = None THEN default ELSE Val(attribute)

\* The settings of the browser a MouseAPI is constructed with: without the
\* attribute, and with it off.
BrowserSettings == {None, Some(FALSE)}

\* MouseAPI.__init__: position (0, 0); humanize from the browser's setting,
\* True when the browser has none.
InitAPI ==
    /\ cur = Origin
    /\ humanize = GetAttr(browser, TRUE)
    /\ pc = [t \in Tasks |-> "Idle"]
    /\ op = [t \in Tasks |-> "none"]
    /\ dest = [t \in Tasks |-> Origin]
    /\ duration = [t \in Tasks |-> None]
    /\ start = [t \in Tasks |-> Origin]
    /\ args = [t \in Tasks |-> NoArgs]
    /\ knots = [t \in Tasks |-> <<>>]
    /\ points = [t \in Tasks |-> <<>>]
    /\ trajectory = [t \in Tasks |-> <<>>]
    /\ sent = [t \in Tasks |-> 0]
    /\ slept = [t \in Tasks |-> NoDelay]
    /\ pending = [t \in Tasks |-> <<>>]
    /\ gesture = [t \in Tasks |-> None]
    /\ log = [t \in Tasks |-> <<>>]
    /\ position = None
    /\ lastMoved = None

Init == browser \in BrowserSettings /\ InitAPI /\ serial = TRUE /\ sink = Unwatched

\* A new call may start in coroutine t: t is the first idle coroutine, and
\* when the callers serialize no other call is in flight.
CanCall(t) ==
    /\ pc[t] = "Idle"
    /\ \A u \in Tasks : u < t => pc[u] # "Idle"
    /\ serial => \A u \in Tasks : pc[u] = "Idle"

\* The API methods that run move_to.
MoveOps == {"move_to", "move_by", "click", "drag"}

\* ---------------------------------------------------- Parameter Randomizer

\* The functions of the Parameter Randomizer.
RandomizerFunctions ==
    {"_get_random_knots_count", "_get_random_target_points", "_get_random_offset_boundary",
     "_get_random_distortion_params"}

\* A function of the Parameter Randomizer, called directly, returns; the
\* value is kept in the fields of `args` it is a value for.
Randomize(t) ==
    /\ pc[t] = "Random"
    /\ \/ /\ op[t] = "_get_random_knots_count"
          /\ \E kc \in get_random_knots_count :
                args' = [args EXCEPT ![t].knots_count = Some(kc)]
       \/ /\ op[t] = "_get_random_target_points"
          /\ \E tp \in get_random_target_points :
                args' = [args EXCEPT ![t].target_points = Some(tp)]
       \/ /\ op[t] = "_get_random_offset_boundary"
          /\ \E ob \in get_random_offset_boundary :
                args' = [args EXCEPT ![t].offset_boundary_x = Some(ob[1]),
                                     ![t].offset_boundary_y = Some(ob[2])]
       \/ /\ op[t] = "_get_random_distortion_params"
          /\ \E dp \in get_random_distortion_params :
                args' = [args EXCEPT ![t].distortion_mean = Some(dp[1]),
                                     ![t].distortion_stdev = Some(dp[2]),
                                     ![t].distortion_frequency = Some(dp[3])]
    /\ pc' = [pc EXCEPT ![t] = "Done"]
    /\ UNCHANGED <<cur, humanize, browser, serial, sink, slept, op, dest, duration, start, knots,
                   points, trajectory, sent, pending, gesture, log, position, lastMoved>>

\* ---------------------------------------------------------------- move_to

\* Mutant: the early exit taken below half a pixel only.
TooCloseHalf(from_point, to_point) == 2 * calculate_distance(from_point, to_point) < Scale

\* distance = calculate_distance(current, (x, y)); distance < 1
TooClose(from_point, to_point) == calculate_distance(from_point, to_point) < Scale

\* await mouse.move_to(x, y, duration)
MoveTo(t, p, d) ==
    /\ CanCall(t)
    /\ pc' = [pc EXCEPT ![t] = "DistanceCheck"]
    /\ op' = [op EXCEPT ![t] = "move_to"]
    /\ dest' = [dest EXCEPT ![t] = p]
    /\ duration' = [duration EXCEPT ![t] = d]
    /\ log' = [log EXCEPT ![t] = <<>>]
    /\ position' = None
    /\ lastMoved' = None
    /\ UNCHANGED <<cur, humanize, browser, serial, sink, slept, start, args, knots, points, trajectory, sent,
                   pending, gesture>>

\* Mutant: the offset is taken as the destination.
MoveByAbsolute(t, delta, d) ==
    /\ CanCall(t)
    /\ <<cur[1] + delta[1], cur[2] + delta[2]>> \in Points
    /\ pc' = [pc EXCEPT ![t] = "DistanceCheck"]
    /\ op' = [op EXCEPT ![t] = "move_by"]
    /\ dest' = [dest EXCEPT ![t] = delta]
    /\ duration' = [duration EXCEPT ![t] = d]
    /\ gesture' = [gesture EXCEPT ![t] = Some([delta_x |-> delta[1], delta_y |-> delta[2]])]
    /\ log' = [log EXCEPT ![t] = <<>>]
    /\ position' = None
    /\ lastMoved' = None
    /\ UNCHANGED <<cur, humanize, browser, serial, sink, slept, start, args, knots, points, trajectory,
                   sent, pending>>

\* await mouse.move_by(delta_x, delta_y, duration): move_to(CursorState +
\* (delta_x, delta_y), duration).
MoveBy(t, delta, d) ==
    /\ CanCall(t)
    /\ <<cur[1] + delta[1], cur[2] + delta[2]>> \in Points
    /\ pc' = [pc EXCEPT ![t] = "DistanceCheck"]
    /\ op' = [op EXCEPT ![t] = "move_by"]
    /\ dest' = [dest EXCEPT ![t] = <<cur[1] + delta[1], cur[2] + delta[2]>>]
    /\ duration' = [duration EXCEPT ![t] = d]
    /\ gesture' = [gesture EXCEPT ![t] = Some([delta_x |-> delta[1], delta_y |-> delta[2]])]
    /\ log' = [log EXCEPT ![t] = <<>>]
    /\ position' = None
    /\ lastMoved' = None
    /\ UNCHANGED <<cur, humanize, browser, serial, sink, slept, start, args, knots, points, trajectory,
                   sent, pending>>

\* Mutant: the skipped move records the destination.
SkipRecording(t) ==
    /\ pc[t] = "DistanceCheck"
    /\ TooClose(cur, dest[t])
    /\ start' = [start EXCEPT ![t] = cur]
    /\ cur' = dest[t]
    /\ pc' = [pc EXCEPT ![t] = "Skip"]
    /\ UNCHANGED <<humanize, browser, serial, sink, slept, op, dest, duration, args, knots, points,
                   trajectory, sent, pending, gesture, log, position, lastMoved>>

\* distance < 1: return without dispatching.
Skip(t) ==
    /\ pc[t] = "DistanceCheck"
    /\ TooClose(cur, dest[t])
    /\ start' = [start EXCEPT ![t] = cur]
    /\ pc' = [pc EXCEPT ![t] = "Skip"]
    /\ UNCHANGED <<cur, humanize, browser, serial, sink, slept, op, dest, duration, args, knots, points,
                   trajectory, sent, pending, gesture, log, position, lastMoved>>

\* Mutant: the teleport sends the current position, not the destination.
TeleportToCurrent(t) ==
    /\ pc[t] = "DistanceCheck"
    /\ ~TooClose(cur, dest[t])
    /\ ~humanize
    /\ log' = [log EXCEPT ![t] = Append(@, MoveEvent(cur))]
    /\ start' = [start EXCEPT ![t] = cur]
    /\ pc' = [pc EXCEPT ![t] = "Teleport"]
    /\ sink' = Delivered(cur)
    /\ UNCHANGED <<cur, humanize, browser, serial, slept, op, dest, duration, args, knots, points,
                   trajectory, sent, pending, gesture, position, lastMoved>>

\* Mutant: the teleport command is built with type mousePressed.
TeleportToPressing(t) ==
    /\ pc[t] = "DistanceCheck"
    /\ ~TooClose(cur, dest[t])
    /\ ~humanize
    /\ log' = [log EXCEPT ![t] = Append(@, [MoveEvent(dest[t]) EXCEPT !.type = "mousePressed"])]
    /\ start' = [start EXCEPT ![t] = cur]
    /\ pc' = [pc EXCEPT ![t] = "Teleport"]
    /\ UNCHANGED <<cur, humanize, browser, serial, sink, slept, op, dest, duration, args, knots, points,
                   trajectory, sent, pending, gesture, position, lastMoved>>

\* Mutant: the mode is read from the browser at every call.
TeleportToLive(t) ==
    /\ pc[t] = "DistanceCheck"
    /\ ~TooClose(cur, dest[t])
    /\ ~GetAttr(browser, TRUE)
    /\ log' = [log EXCEPT ![t] = Append(@, MoveEvent(dest[t]))]
    /\ start' = [start EXCEPT ![t] = cur]
    /\ pc' = [pc EXCEPT ![t] = "Teleport"]
    /\ sink' = Delivered(dest[t])
    /\ UNCHANGED <<cur, humanize, browser, serial, slept, op, dest, duration, args, knots, points,
                   trajectory, sent, pending, gesture, position, lastMoved>>

\* not self._humanize: _teleport_to(x, y) sends one mouseMoved command.
TeleportTo(t) ==
    /\ pc[t] = "DistanceCheck"
    /\ ~TooClose(cur, dest[t])
    /\ ~humanize
    /\ log' = [log EXCEPT ![t] = Append(@, MoveEvent(dest[t]))]
    /\ start' = [start EXCEPT ![t] = cur]
    /\ pc' = [pc EXCEPT ![t] = "Teleport"]
    /\ sink' = Delivered(dest[t])
    /\ UNCHANGED <<cur, humanize, browser, serial, slept, op, dest, duration, args, knots, points,
                   trajectory, sent, pending, gesture, position, lastMoved>>

\* The sink raises on the command of _teleport_to: the error propagates out
\* of move_to before the CursorState update.
TeleportFails(t) ==
    /\ pc[t] = "DistanceCheck"
    /\ ~TooClose(cur, dest[t])
    /\ ~humanize
    /\ start' = [start EXCEPT ![t] = cur]
    /\ pc' = [pc EXCEPT ![t] = "Failed"]
    /\ UNCHANGED <<cur, humanize, browser, serial, sink, slept, op, dest, duration, args, knots, points,
                   trajectory, sent, pending, gesture, log, position, lastMoved>>

\* _teleport_to returned: self._current_x, self._current_y = x, y.
TeleportCommit(t) ==
    /\ pc[t] = "Teleport"
    /\ cur' = dest[t]
    /\ pc' = [pc EXCEPT ![t] = "Committed"]
    /\ UNCHANGED <<humanize, browser, serial, sink, locals, log, position, lastMoved>>

\* Mutant: target_points without the lower clamp.
TargetPointsUnclamped(d) == (d * STEPS_PER_SECOND) \div 1000

\* target_points = max(int(duration * STEPS_PER_SECOND), 2), duration in ms.
TargetPoints(d) == Max2((d * STEPS_PER_SECOND) \div 1000, 2)

\* Mutant: the path is planned from the point of the last move event.
BeginTrajectoryFromSink(t) ==
    /\ pc[t] = "DistanceCheck"
    /\ ~TooClose(cur, dest[t])
    /\ humanize
    /\ \E d \in IF duration[t] = None
                THEN Lowest(generate_random_duration(DefaultMinDuration, DefaultMaxDuration))
                ELSE {Val(duration[t])} :
          /\ duration' = [duration EXCEPT ![t] = Some(d)]
          /\ args' = [args EXCEPT ![t] = [NoArgs EXCEPT !.target_points = Some(TargetPoints(d))]]
    /\ start' = [start EXCEPT ![t] = IF sink = None THEN cur ELSE Val(sink)]
    /\ pc' = [pc EXCEPT ![t] = "Plan"]
    /\ UNCHANGED <<cur, humanize, browser, serial, sink, slept, op, dest, knots, points, trajectory, sent,
                   pending, gesture, log, position, lastMoved>>

\* Humanized mode: resolve the duration, compute target_points and call
\* generate_human_mouse_trajectory(from_point = CursorState, to_point = (x, y),
\* target_points = target_points).
BeginTrajectory(t) ==
    /\ pc[t] = "DistanceCheck"
    /\ ~TooClose(cur, dest[t])
    /\ humanize
    /\ \E d \in IF duration[t] = None
                THEN Lowest(generate_random_duration(DefaultMinDuration, DefaultMaxDuration))
                ELSE {Val(duration[t])} :
          /\ duration' = [duration EXCEPT ![t] = Some(d)]
          /\ args' = [args EXCEPT ![t] = [NoArgs EXCEPT !.target_points = Some(TargetPoints(d))]]
    /\ start' = [start EXCEPT ![t] = cur]
    /\ pc' = [pc EXCEPT ![t] = "Plan"]
    /\ UNCHANGED <<cur, humanize, browser, serial, sink, slept, op, dest, knots, points, trajectory, sent,
                   pending, gesture, log, position, lastMoved>>

\* ---------------------------------------- generate_human_mouse_trajectory

\* The parameter sets the function can continue with: a parameter that is
\* None is drawn from the randomizer; both offsets are drawn when either is
\* None, all three distortion parameters when any of them is None.  Inside
\* the pipeline the draws are sampled: knot counts up to MaxKnots, and the
\* least value of each other range.
ResolvedArgs(a) ==
    LET KC == IF a.knots_count = None THEN {c \in get_random_knots_count : c <= MaxKnots}
                                      ELSE {Val(a.knots_count)}
        TP == IF a.target_points = None THEN Lowest(get_random_target_points)
                                        ELSE {Val(a.target_points)}
        OB == IF a.offset_boundary_x = None \/ a.offset_boundary_y = None
              THEN {ob \in {<<5 * Scale, 5 * Scale>>} : ob \in get_random_offset_boundary}
              ELSE {<<Val(a.offset_boundary_x), Val(a.offset_boundary_y)>>}
        DP == IF a.distortion_mean = None \/ a.distortion_stdev = None
                    \/ a.distortion_frequency = None
              THEN {dp \in {<<0, 20, 10>>} : dp \in get_random_distortion_params}
              ELSE {<<Val(a.distortion_mean), Val(a.distortion_stdev),
                      Val(a.distortion_frequency)>>}
    IN  {[knots_count |-> Some(kc), target_points |-> Some(tp),
          offset_boundary_x |-> Some(ob[1]), offset_boundary_y |-> Some(ob[2]),
          distortion_mean |-> Some(dp[1]), distortion_stdev |-> Some(dp[2]),
          distortion_frequency |-> Some(dp[3]), easing_func |-> a.easing_func] :
            kc \in KC, tp \in TP, ob \in OB, dp \in DP}

\* Parameter Randomizer: "if ... is None" (movement.py 419-426).
ResolveParameters(t) ==
    /\ pc[t] = "Plan"
    /\ args' \in {[args EXCEPT ![t] = r] : r \in ResolvedArgs(args[t])}
    /\ pc' = [pc EXCEPT ![t] = "Knots"]
    /\ UNCHANGED <<cur, humanize, browser, serial, sink, slept, op, dest, duration, start, knots, points,
                   trajectory, sent, pending, gesture, log, position, lastMoved>>

\* internal_knots = generate_internal_knots(...)
InternalKnots(t) ==
    /\ pc[t] = "Knots"
    /\ \E ks \in generate_internal_knots(start[t], dest[t], Val(args[t].knots_count),
                                         Val(args[t].offset_boundary_x),
                                         Val(args[t].offset_boundary_y)) :
          knots' = [knots EXCEPT ![t] = ks]
    /\ pc' = [pc EXCEPT ![t] = "Bezier"]
    /\ UNCHANGED <<cur, humanize, browser, serial, sink, slept, op, dest, duration, start, args, points,
                   trajectory, sent, pending, gesture, log, position, lastMoved>>

\* points = generate_bezier_curve_points(from_point, to_point, internal_knots)
BezierCurve(t) ==
    /\ pc[t] = "Bezier"
    /\ points' = [points EXCEPT ![t] = generate_bezier_curve_points(start[t], dest[t], knots[t])]
    /\ knots' = [knots EXCEPT ![t] = <<>>]
    /\ pc' = [pc EXCEPT ![t] = "Distort"]
    /\ UNCHANGED <<cur, humanize, browser, serial, sink, slept, op, dest, duration, start, args,
                   trajectory, sent, pending, gesture, log, position, lastMoved>>

\* points = apply_distortion(points, mean, stdev, frequency).  The function
\* builds a new list; when it is called directly the list it returns is
\* kept in `trajectory`, next to its input.
Distortion(t) ==
    /\ pc[t] = "Distort"
    /\ Len(points[t]) >= 1
    /\ \E ps \in apply_distortion(points[t], Val(args[t].distortion_mean),
                                  Val(args[t].distortion_stdev),
                                  Val(args[t].distortion_frequency)) :
          IF op[t] = "apply_distortion"
          THEN trajectory' = [trajectory EXCEPT ![t] = ps] /\ points' = points
          ELSE points' = [points EXCEPT ![t] = ps] /\ trajectory' = trajectory
    /\ pc' = [pc EXCEPT ![t] = IF op[t] = "apply_distortion" THEN "Done" ELSE "Ease"]
    /\ UNCHANGED <<cur, humanize, browser, serial, sink, slept, op, dest, duration, start, args, knots,
                   sent, pending, gesture, log, position, lastMoved>>

\* points = apply_easing(points, target_points, easing_func); the result is
\* the trajectory (when the function is called directly its input is kept
\* next to it).  move_to goes on to _execute_trajectory.
Easing(t) ==
    /\ pc[t] = "Ease"
    /\ \E f \in IF args[t].easing_func = None THEN get_random_easing_function
                                             ELSE {Val(args[t].easing_func)} :
          /\ ~EasingRaises(points[t], Val(args[t].target_points), f)
          /\ trajectory' = [trajectory EXCEPT
                                ![t] = apply_easing(points[t], Val(args[t].target_points), f)]
          /\ args' = [args EXCEPT ![t].easing_func = Some(f)]
    /\ points' = IF op[t] = "apply_easing" THEN points ELSE [points EXCEPT ![t] = <<>>]
    /\ sent' = [sent EXCEPT ![t] = 0]
    /\ pc' = [pc EXCEPT ![t] = IF op[t] \in MoveOps THEN "Execute" ELSE "Done"]
    /\ UNCHANGED <<cur, humanize, browser, serial, sink, slept, op, dest, duration, start, knots,
                   pending, gesture, log, position, lastMoved>>

\* result.append(points[index]) raises IndexError for an index outside the
\* list: the error propagates out of apply_easing.
EasingError(t) ==
    /\ pc[t] = "Ease"
    /\ \E f \in IF args[t].easing_func = None THEN get_random_easing_function
                                             ELSE {Val(args[t].easing_func)} :
          /\ EasingRaises(points[t], Val(args[t].target_points), f)
          /\ args' = [args EXCEPT ![t].easing_func = Some(f)]
    /\ pc' = [pc EXCEPT ![t] = "Raised"]
    /\ UNCHANGED <<cur, humanize, browser, serial, sink, slept, op, dest, duration, start, knots,
                   points, trajectory, sent, pending, gesture, log, position, lastMoved>>

\* ------------------------------------------------------ _execute_trajectory

\* Mutant: CursorState follows every dispatched point.
DispatchTracking(t) ==
    /\ pc[t] = "Execute"
    /\ sent[t] < Len(trajectory[t])
    /\ log' = [log EXCEPT ![t] = Append(@, MoveEvent(trajectory[t][sent[t] + 1]))]
    /\ sent' = [sent EXCEPT ![t] = @ + 1]
    /\ cur' = trajectory[t][sent[t] + 1]
    /\ pc' = [pc EXCEPT ![t] = IF sent[t] + 1 < Len(trajectory[t]) THEN "Suspend" ELSE "Execute"]
    /\ sink' = Delivered(trajectory[t][sent[t] + 1])
    /\ UNCHANGED <<humanize, browser, serial, slept, op, dest, duration, start, args, knots, points,
                   trajectory, pending, gesture, position, lastMoved>>

\* Mutant: the next point is sent without a sleep before it.
DispatchWithoutSleep(t) ==
    /\ pc[t] = "Execute"
    /\ sent[t] < Len(trajectory[t])
    /\ log' = [log EXCEPT ![t] = Append(@, MoveEvent(trajectory[t][sent[t] + 1]))]
    /\ sent' = [sent EXCEPT ![t] = @ + 1]
    /\ pc' = [pc EXCEPT ![t] = "Execute"]
    /\ sink' = Delivered(trajectory[t][sent[t] + 1])
    /\ UNCHANGED <<cur, humanize, browser, serial, slept, op, dest, duration, start, args, knots, points,
                   trajectory, pending, gesture, position, lastMoved>>

\* Send the next point of the trajectory as a mouseMoved command: point 0 at
\* once, every later point after its sleep.  After the command, if points
\* remain the coroutine is suspended in asyncio.sleep(delay).
Dispatch(t) ==
    /\ pc[t] = "Execute"
    /\ sent[t] < Len(trajectory[t])
    /\ log' = [log EXCEPT ![t] = Append(@, MoveEvent(trajectory[t][sent[t] + 1]))]
    /\ sent' = [sent EXCEPT ![t] = @ + 1]
    /\ pc' = [pc EXCEPT ![t] = IF sent[t] + 1 < Len(trajectory[t]) THEN "Suspend" ELSE "Execute"]
    /\ sink' = Delivered(trajectory[t][sent[t] + 1])
    /\ UNCHANGED <<cur, humanize, browser, serial, slept, op, dest, duration, start, args, knots, points,
                   trajectory, pending, gesture, position, lastMoved>>

\* Mutant: the failing playback records the last point it sent in
\* CursorState.
DispatchFailsTracking(t) ==
    /\ pc[t] = "Execute"
    /\ sent[t] < Len(trajectory[t])
    /\ pc' = [pc EXCEPT ![t] = "Failed"]
    /\ cur' = IF sent[t] = 0 THEN cur ELSE trajectory[t][sent[t]]
    /\ UNCHANGED <<humanize, browser, serial, sink, locals, log, position, lastMoved>>

\* The sink raises on the next command (_execute_command fails): the command
\* is not delivered and the error propagates out of _execute_trajectory and
\* move_to, which has no handler.
DispatchFails(t) ==
    /\ pc[t] = "Execute"
    /\ sent[t] < Len(trajectory[t])
    /\ pc' = [pc EXCEPT ![t] = "Failed"]
    /\ UNCHANGED <<cur, humanize, browser, serial, sink, locals, log, position, lastMoved>>

\* Mutant: the total distance leaves out the last segment.
TotalDistanceShort(tr) ==
    SumTo([i \in 0..(Len(tr) - 1) |->
              IF i = 0 THEN 0 ELSE calculate_distance(tr[i], tr[i + 1])],
          Len(tr) - 2)

\* total_distance: the sum of calculate_distance over consecutive points.
TotalDistance(tr) ==
    SumTo([i \in 0..(Len(tr) - 1) |->
              IF i = 0 THEN 0 ELSE calculate_distance(tr[i], tr[i + 1])],
          Len(tr) - 1)

\* delay before point i + 1 (i points are sent): its share of the duration
\* by segment length, or an equal share when the total distance is 0.  The
\* quotient is kept exact, as <<numerator, denominator>>.
Delay(tr, i, d) ==
    LET total_distance == TotalDistance(tr)
    IN  IF total_distance > 0
        THEN <<calculate_distance(tr[i], tr[i + 1]) * d, total_distance>>
        ELSE <<d, Max2(Len(tr) - 1, 1)>>

\* Mutant: after the sleep the playback starts over from point 0.
WakeReplaying(t) ==
    /\ pc[t] = "Suspend"
    /\ pc' = [pc EXCEPT ![t] = "Execute"]
    /\ sent' = [sent EXCEPT ![t] = 0]
    /\ LET delay == Delay(trajectory[t], sent[t], Val(duration[t]))
       IN  slept' = [slept EXCEPT ![t] = <<@[1] + delay[1], delay[2]>>]
    /\ UNCHANGED <<cur, humanize, browser, serial, sink, op, dest, duration, start, args, knots,
                   points, trajectory, pending, gesture, log, position, lastMoved>>

\* asyncio.sleep(delay) returns.  Every delay of one playback has the same
\* denominator, so the numerators add up.
Wake(t) ==
    /\ pc[t] = "Suspend"
    /\ pc' = [pc EXCEPT ![t] = "Execute"]
    /\ LET delay == Delay(trajectory[t], sent[t], Val(duration[t]))
       IN  slept' = [slept EXCEPT ![t] = <<@[1] + delay[1], delay[2]>>]
    /\ UNCHANGED <<cur, humanize, browser, serial, sink, op, dest, duration, start, args, knots,
                   points, trajectory, sent, pending, gesture, log, position, lastMoved>>

\* A direct call of _execute_trajectory returns: all points are sent, or the
\* trajectory is empty.  CursorState is not touched.
Executed(t) ==
    /\ op[t] = "_execute_trajectory"
    /\ pc[t] = "Execute"
    /\ sent[t] = Len(trajectory[t])
    /\ pc' = [pc EXCEPT ![t] = "Done"]
    /\ UNCHANGED <<cur, humanize, browser, serial, sink, locals, log, position, lastMoved>>

\* Mutant: the final CursorState update runs on cancellation too.
CancelCommitting(t) ==
    /\ pc[t] = "Suspend"
    /\ cur' = dest[t]
    /\ pc' = [pc EXCEPT ![t] = "Cancelled"]
    /\ UNCHANGED <<humanize, browser, serial, sink, locals, log, position, lastMoved>>

\* The host cancels the coroutine while it is suspended in asyncio.sleep:
\* CancelledError propagates out of _execute_trajectory and move_to.
Cancel(t) ==
    /\ pc[t] = "Suspend"
    /\ pc' = [pc EXCEPT ![t] = "Cancelled"]
    /\ UNCHANGED <<cur, humanize, browser, serial, sink, locals, log, position, lastMoved>>

\* Mutant: only _current_x is updated.
CommitXOnly(t) ==
    /\ pc[t] = "Execute"
    /\ sent[t] = Len(trajectory[t])
    /\ cur' = <<dest[t][1], cur[2]>>
    /\ pc' = [pc EXCEPT ![t] = "Committed"]
    /\ UNCHANGED <<humanize, browser, serial, sink, locals, log, position, lastMoved>>

\* _execute_trajectory returned (all points sent, or the trajectory is
\* empty): self._current_x, self._current_y = x, y.
Commit(t) ==
    /\ pc[t] = "Execute"
    /\ sent[t] = Len(trajectory[t])
    /\ cur' = dest[t]
    /\ pc' = [pc EXCEPT ![t] = "Committed"]
    /\ UNCHANGED <<humanize, browser, serial, sink, locals, log, position, lastMoved>>

\* ------------------------------------------------------------------ click

\* await mouse.click(x, y, button, click_count, move_duration): with both
\* coordinates given, move_to(x, y, duration = move_duration) runs first,
\* with a random duration when none is given and humanize is on.
Click(t, x, y, button, click_count, move_duration) ==
    /\ CanCall(t)
    /\ op' = [op EXCEPT ![t] = "click"]
    /\ pending' = [pending EXCEPT ![t] =
                      <<MouseEvent("mousePressed", Origin, button, click_count, 0, 0),
                        MouseEvent("mouseReleased", Origin, button, click_count, 0, 0)>>]
    /\ log' = [log EXCEPT ![t] = <<>>]
    /\ position' = None
    /\ lastMoved' = None
    /\ IF x # None /\ y # None
       THEN /\ dest' = [dest EXCEPT ![t] = <<Val(x), Val(y)>>]
            /\ \E d \in IF move_duration = None /\ humanize
                        THEN {Some(r) : r \in Lowest(generate_random_duration(
                                                      DefaultMinDuration, DefaultMaxDuration))}
                        ELSE {move_duration} :
                  duration' = [duration EXCEPT ![t] = d]
            /\ pc' = [pc EXCEPT ![t] = "DistanceCheck"]
       ELSE /\ pc' = [pc EXCEPT ![t] = "Click"]
            /\ UNCHANGED <<dest, duration>>
    /\ UNCHANGED <<cur, humanize, browser, serial, sink, slept, start, args, knots, points, trajectory, sent,
                   gesture>>

\* Mutant: the release command is built without click_count (default 1).
PressReleaseCountOne(t) ==
    /\ op[t] = "click"
    /\ pc[t] \in {"Click", "Skip", "Committed"}
    /\ log' = [log EXCEPT ![t] = Append(@, [pending[t][1] EXCEPT !.x = cur[1], !.y = cur[2]])]
    /\ pending' = [pending EXCEPT ![t] = <<[pending[t][2] EXCEPT !.x = cur[1], !.y = cur[2],
                                                                 !.clickCount = 1]>>]
    /\ pc' = [pc EXCEPT ![t] = "Hold"]
    /\ UNCHANGED <<cur, humanize, browser, serial, sink, slept, op, dest, duration, start, args, knots, points,
                   trajectory, sent, gesture, position, lastMoved>>

\* press_command and release_command are built at the current CursorState
\* (after move_to returned, when it ran), then the press is sent.
Press(t) ==
    /\ op[t] = "click"
    /\ pc[t] \in {"Click", "Skip", "Committed"}
    /\ log' = [log EXCEPT ![t] = Append(@, [pending[t][1] EXCEPT !.x = cur[1], !.y = cur[2]])]
    /\ pending' = [pending EXCEPT ![t] = <<[pending[t][2] EXCEPT !.x = cur[1], !.y = cur[2]]>>]
    /\ pc' = [pc EXCEPT ![t] = "Hold"]
    /\ UNCHANGED <<cur, humanize, browser, serial, sink, slept, op, dest, duration, start, args, knots, points,
                   trajectory, sent, gesture, position, lastMoved>>

\* The host cancels the coroutine while it is suspended in
\* asyncio.sleep(hold_duration): CancelledError propagates out of click, which
\* has no handler, and the release command built is never sent.
CancelHold(t) ==
    /\ op[t] = "click"
    /\ pc[t] = "Hold"
    /\ pc' = [pc EXCEPT ![t] = "HoldCancelled"]
    /\ UNCHANGED <<cur, humanize, browser, serial, sink, locals, log, position, lastMoved>>

\* asyncio.sleep(hold_duration) returns; the release is sent.
Release(t) ==
    /\ op[t] = "click"
    /\ pc[t] = "Hold"
    /\ log' = [log EXCEPT ![t] = Append(@, pending[t][1])]
    /\ pending' = [pending EXCEPT ![t] = <<>>]
    /\ pc' = [pc EXCEPT ![t] = "Done"]
    /\ UNCHANGED <<cur, humanize, browser, serial, sink, slept, op, dest, duration, start, args, knots, points,
                   trajectory, sent, gesture, position, lastMoved>>

\* ------------------------------------------------------------------- drag

\* move_to_start_duration / drag_duration: a random duration when None and
\* humanize is on.
DragDuration(d) ==
    IF d = None /\ humanize
    THEN {Some(r) : r \in Lowest(generate_random_duration(DefaultMinDuration,
                                                         DefaultMaxDuration))}
    ELSE {d}

\* await mouse.drag(from_x, from_y, to_x, to_y, button, move_to_start_duration,
\* drag_duration): both durations are resolved, then
\* move_to(from_x, from_y, duration = move_to_start_duration) runs.
Drag(t, from_point, to_point, button, move_to_start_duration, drag_duration) ==
    /\ CanCall(t)
    /\ op' = [op EXCEPT ![t] = "drag"]
    /\ \E d1 \in DragDuration(move_to_start_duration), d2 \in DragDuration(drag_duration) :
          /\ duration' = [duration EXCEPT ![t] = d1]
          /\ gesture' = [gesture EXCEPT ![t] =
                            Some([from_point |-> from_point, to_point |-> to_point,
                                  button |-> button, drag_duration |-> d2,
                                  pressed |-> FALSE])]
    /\ dest' = [dest EXCEPT ![t] = from_point]
    /\ log' = [log EXCEPT ![t] = <<>>]
    /\ pc' = [pc EXCEPT ![t] = "DistanceCheck"]
    /\ position' = None
    /\ lastMoved' = None
    /\ UNCHANGED <<cur, humanize, browser, serial, sink, slept, start, args, knots, points, trajectory, sent,
                   pending>>

\* Mutant: the press command is built from CursorState.
DragPressAtCursor(t) ==
    /\ op[t] = "drag"
    /\ pc[t] \in {"Skip", "Committed"}
    /\ ~Val(gesture[t]).pressed
    /\ log' = [log EXCEPT ![t] = Append(@, MouseEvent("mousePressed", cur,
                                                      Val(gesture[t]).button, 1, 0, 0))]
    /\ gesture' = [gesture EXCEPT ![t] = Some([Val(@) EXCEPT !.pressed = TRUE])]
    /\ pc' = [pc EXCEPT ![t] = "Pressed"]
    /\ UNCHANGED <<cur, humanize, browser, serial, sink, slept, op, dest, duration, start, args, knots, points,
                   trajectory, sent, pending, position, lastMoved>>

\* The move to the start returned: the press command is built with
\* x = from_x, y = from_y, click_count = 1 and sent.
DragPress(t) ==
    /\ op[t] = "drag"
    /\ pc[t] \in {"Skip", "Committed"}
    /\ ~Val(gesture[t]).pressed
    /\ log' = [log EXCEPT ![t] = Append(@, MouseEvent("mousePressed", Val(gesture[t]).from_point,
                                                      Val(gesture[t]).button, 1, 0, 0))]
    /\ gesture' = [gesture EXCEPT ![t] = Some([Val(@) EXCEPT !.pressed = TRUE])]
    /\ pc' = [pc EXCEPT ![t] = "Pressed"]
    /\ UNCHANGED <<cur, humanize, browser, serial, sink, slept, op, dest, duration, start, args, knots, points,
                   trajectory, sent, pending, position, lastMoved>>

\* Mutant: the drag move goes to the start point again.
DragMoveToStart(t) ==
    /\ op[t] = "drag"
    /\ pc[t] = "Pressed"
    /\ dest' = [dest EXCEPT ![t] = Val(gesture[t]).from_point]
    /\ duration' = [duration EXCEPT ![t] = Val(gesture[t]).drag_duration]
    /\ start' = [start EXCEPT ![t] = Origin]
    /\ args' = [args EXCEPT ![t] = NoArgs]
    /\ trajectory' = [trajectory EXCEPT ![t] = <<>>]
    /\ sent' = [sent EXCEPT ![t] = 0]
    /\ slept' = [slept EXCEPT ![t] = NoDelay]
    /\ pc' = [pc EXCEPT ![t] = "DistanceCheck"]
    /\ UNCHANGED <<cur, humanize, browser, serial, sink, op, knots, points, pending, gesture, log,
                   position, lastMoved>>

\* The press was sent: move_to(to_x, to_y, duration = drag_duration), a new
\* call of move_to with locals of its own.
DragMove(t) ==
    /\ op[t] = "drag"
    /\ pc[t] = "Pressed"
    /\ dest' = [dest EXCEPT ![t] = Val(gesture[t]).to_point]
    /\ duration' = [duration EXCEPT ![t] = Val(gesture[t]).drag_duration]
    /\ start' = [start EXCEPT ![t] = Origin]
    /\ args' = [args EXCEPT ![t] = NoArgs]
    /\ trajectory' = [trajectory EXCEPT ![t] = <<>>]
    /\ sent' = [sent EXCEPT ![t] = 0]
    /\ slept' = [slept EXCEPT ![t] = NoDelay]
    /\ pc' = [pc EXCEPT ![t] = "DistanceCheck"]
    /\ UNCHANGED <<cur, humanize, browser, serial, sink, op, knots, points, pending, gesture, log,
                   position, lastMoved>>

\* Mutant: the release command is built with type mousePressed.
DragReleasePressing(t) ==
    /\ op[t] = "drag"
    /\ pc[t] \in {"Skip", "Committed"}
    /\ Val(gesture[t]).pressed
    /\ log' = [log EXCEPT ![t] = Append(@, MouseEvent("mousePressed", Val(gesture[t]).to_point,
                                                      Val(gesture[t]).button, 1, 0, 0))]
    /\ pc' = [pc EXCEPT ![t] = "Done"]
    /\ UNCHANGED <<cur, humanize, browser, serial, sink, slept, op, dest, duration, start, args, knots, points,
                   trajectory, sent, pending, gesture, position, lastMoved>>

\* The drag move returned: the release command is built with x = to_x,
\* y = to_y, click_count = 1 and sent.
DragRelease(t) ==
    /\ op[t] = "drag"
    /\ pc[t] \in {"Skip", "Committed"}
    /\ Val(gesture[t]).pressed
    /\ log' = [log EXCEPT ![t] = Append(@, MouseEvent("mouseReleased", Val(gesture[t]).to_point,
                                                      Val(gesture[t]).button, 1, 0, 0))]
    /\ pc' = [pc EXCEPT ![t] = "Done"]
    /\ UNCHANGED <<cur, humanize, browser, serial, sink, slept, op, dest, duration, start, args, knots, points,
                   trajectory, sent, pending, gesture, position, lastMoved>>

\* ----------------------------------------------------------- scroll_wheel

\* await mouse.scroll_wheel(delta_x, delta_y): one mouseWheel command at the
\* current CursorState.
ScrollWheel(t, delta_x, delta_y) ==
    /\ CanCall(t)
    /\ op' = [op EXCEPT ![t] = "scroll_wheel"]
    /\ log' = [log EXCEPT ![t] = <<MouseEvent("mouseWheel", cur, "none", 0, delta_x, delta_y)>>]
    /\ pc' = [pc EXCEPT ![t] = "Done"]
    /\ position' = None
    /\ lastMoved' = None
    /\ UNCHANGED <<cur, humanize, browser, serial, sink, slept, dest, duration, start, args, knots, points,
                   trajectory, sent, pending, gesture>>

\* ------------------------------------------- get_position / set_position

\* Synchronous methods: they run between two calls when the callers
\* serialize, and between any two steps of the coroutines otherwise.
CanCallSync == serial => \A u \in Tasks : pc[u] = "Idle"

GetPosition ==
    /\ CanCallSync
    /\ position' = Some(cur)
    /\ UNCHANGED <<cur, humanize, browser, serial, sink, pc, locals, log, lastMoved>>

\* Mutant: set_position sends the new position to the browser.
SetPositionMoving(p) ==
    /\ CanCallSync
    /\ cur' = p
    /\ position' = None
    /\ lastMoved' = Some(p)
    /\ log' = [t \in Tasks |-> <<MoveEvent(p)>>]
    /\ sink' = Delivered(p)
    /\ UNCHANGED <<humanize, browser, serial, pc, locals>>

\* mouse.set_position(x, y): self._current_x = x; self._current_y = y.
SetPosition(p) ==
    /\ CanCallSync
    /\ cur' = p
    /\ position' = None
    /\ lastMoved' = Some(p)
    /\ UNCHANGED <<humanize, browser, serial, sink, pc, locals, log>>

\* ---------------------------------------------- _generate_random_duration

\* <<min_duration, max_duration>> passed to _generate_random_duration, in ms:
\* none, and the ranges 0.3-0.7, 1-2 and 0.7-0.7 s.
DurationBounds == {<<None, None>>, <<Some(300), Some(700)>>, <<Some(1000), Some(2000)>>,
                   <<Some(700), Some(700)>>}

\* _generate_random_duration(min_duration, max_duration), called directly:
\* an omitted argument takes its default.  The arguments are kept in
\* `gesture` and the value returned in `duration`.
RandomDuration(t, min_duration, max_duration) ==
    /\ CanCall(t)
    /\ op' = [op EXCEPT ![t] = "_generate_random_duration"]
    /\ gesture' = [gesture EXCEPT ![t] = Some([min_duration |-> min_duration,
                                               max_duration |-> max_duration])]
    /\ \E d \in generate_random_duration(
                    IF min_duration = None THEN DefaultMinDuration ELSE Val(min_duration),
                    IF max_duration = None THEN DefaultMaxDuration ELSE Val(max_duration)) :
          duration' = [duration EXCEPT ![t] = Some(d)]
    /\ log' = [log EXCEPT ![t] = <<>>]
    /\ pc' = [pc EXCEPT ![t] = "Done"]
    /\ position' = None
    /\ lastMoved' = None
    /\ UNCHANGED <<cur, humanize, browser, serial, sink, slept, dest, start, args, knots, points,
                   trajectory, sent, pending>>

\* ----------------------------------------------------------------- return

\* The stages in which the coroutine's API call is over.
Finished(t) ==
    \/ pc[t] \in {"Done", "Cancelled", "Failed", "HoldCancelled"}
    \/ pc[t] \in {"Skip", "Committed"} /\ op[t] \in {"move_to", "move_by"}

\* The call returns (or raises) to its caller; its locals are dropped.
Return(t) ==
    /\ Finished(t)
    /\ pc' = [pc EXCEPT ![t] = "Idle"]
    /\ op' = [op EXCEPT ![t] = "none"]
    /\ dest' = [dest EXCEPT ![t] = Origin]
    /\ duration' = [duration EXCEPT ![t] = None]
    /\ start' = [start EXCEPT ![t] = Origin]
    /\ args' = [args EXCEPT ![t] = NoArgs]
    /\ knots' = [knots EXCEPT ![t] = <<>>]
    /\ points' = [points EXCEPT ![t] = <<>>]
    /\ trajectory' = [trajectory EXCEPT ![t] = <<>>]
    /\ sent' = [sent EXCEPT ![t] = 0]
    /\ pending' = [pending EXCEPT ![t] = <<>>]
    /\ gesture' = [gesture EXCEPT ![t] = None]
    /\ log' = [log EXCEPT ![t] = <<>>]
    /\ lastMoved' = IF op[t] = "move_to" /\ pc[t] = "Committed" THEN Some(dest[t]) ELSE None
    /\ slept' = [slept EXCEPT ![t] = NoDelay]
    /\ UNCHANGED <<cur, humanize, browser, serial, sink, position>>

\* ------------------------------------------------------------ specification

Next ==
    \/ \E t \in Tasks, p \in Points, d \in Durations : MoveTo(t, p, d)
    \/ \E t \in Tasks : Skip(t)
    \/ \E t \in Tasks : TeleportTo(t)
    \/ \E t \in Tasks : TeleportFails(t)
    \/ \E t \in Tasks : TeleportCommit(t)
    \/ \E t \in Tasks : BeginTrajectory(t)
    \/ \E t \in Tasks : ResolveParameters(t)
    \/ \E t \in Tasks : InternalKnots(t)
    \/ \E t \in Tasks : BezierCurve(t)
    \/ \E t \in Tasks : Distortion(t)
    \/ \E t \in Tasks : Easing(t)
    \/ \E t \in Tasks : Dispatch(t)
    \/ \E t \in Tasks : DispatchFails(t)
    \/ \E t \in Tasks : Wake(t)
    \/ \E t \in Tasks : Cancel(t)
    \/ \E t \in Tasks : Commit(t)
    \/ \E t \in Tasks, b \in Buttons, c \in ClickCounts : Click(t, None, None, b, c, None)
    \/ \E t \in Tasks : Press(t)
    \/ \E t \in Tasks : CancelHold(t)
    \/ \E t \in Tasks : Release(t)
    \/ \E t \in Tasks, dx \in Deltas, dy \in Deltas : ScrollWheel(t, dx, dy)
    \/ GetPosition
    \/ \E p \in Points : SetPosition(p)
    \/ \E t \in Tasks, b \in DurationBounds : RandomDuration(t, b[1], b[2])
    \/ \E t \in Tasks : Return(t)

Spec == Init /\ [][Next]_vars

\* ------------------------------------------------------------ the gestures

\* move_to, move_by, click(x, y) and drag, with set_position in between.
NextGesture ==
    \/ \E t \in Tasks, p \in Points : MoveTo(t, p, Some(0))
    \/ \E t \in Tasks, c \in MoveByCalls : MoveBy(t, c[1], c[2])
    \/ \E t \in Tasks, c \in ClickCalls :
          Click(t, Some(c[1][1]), Some(c[1][2]), c[2], c[3], c[4])
    \/ \E t \in Tasks, c \in DragCalls : Drag(t, c[1], c[2], c[3], c[4], c[5])
    \/ \E t \in Tasks : Skip(t)
    \/ \E t \in Tasks : TeleportTo(t)
    \/ \E t \in Tasks : TeleportFails(t)
    \/ \E t \in Tasks : TeleportCommit(t)
    \/ \E t \in Tasks : BeginTrajectory(t)
    \/ \E t \in Tasks : ResolveParameters(t)
    \/ \E t \in Tasks : InternalKnots(t)
    \/ \E t \in Tasks : BezierCurve(t)
    \/ \E t \in Tasks : Distortion(t)
    \/ \E t \in Tasks : Easing(t)
    \/ \E t \in Tasks : Dispatch(t)
    \/ \E t \in Tasks : DispatchFails(t)
    \/ \E t \in Tasks : Wake(t)
    \/ \E t \in Tasks : Cancel(t)
    \/ \E t \in Tasks : Commit(t)
    \/ \E t \in Tasks : Press(t)
    \/ \E t \in Tasks : CancelHold(t)
    \/ \E t \in Tasks : Release(t)
    \/ \E t \in Tasks : DragPress(t)
    \/ \E t \in Tasks : DragMove(t)
    \/ \E t \in Tasks : DragRelease(t)
    \/ \E p \in Points : SetPosition(p)
    \/ \E t \in Tasks : Return(t)

SpecGesture == Init /\ [][NextGesture]_vars

\* ------------------------------------------------- the browser's setting

\* The host sets browser.humanize_mouse_movement (or removes it with b =
\* None), between two calls.  The MouseAPI instance is not involved.
SetBrowserSetting(b) ==
    /\ CanCallSync
    /\ browser # b
    /\ browser' = b
    /\ UNCHANGED <<cur, humanize, serial, sink, pc, locals, log, position, lastMoved>>

\* Positions given to set_position: the points of the moves and (2, 2),
\* which no move is asked to reach.
Positions == Points \cup {<<200, 200>>}

\* A MouseAPI constructed over a browser with any setting, then move_to,
\* set_position and get_position calls while the host changes the setting.
InitConfig ==
    browser \in BrowserSettings \cup {Some(TRUE)} /\ InitAPI /\ serial = TRUE /\ sink = Unwatched

NextConfig ==
    \/ \E b \in BrowserSettings \cup {Some(TRUE)} : SetBrowserSetting(b)
    \/ \E t \in Tasks, p \in Points : MoveTo(t, p, Some(0))
    \/ \E t \in Tasks : Skip(t)
    \/ \E t \in Tasks : TeleportTo(t)
    \/ \E t \in Tasks : TeleportCommit(t)
    \/ \E t \in Tasks : BeginTrajectory(t)
    \/ \E t \in Tasks : ResolveParameters(t)
    \/ \E t \in Tasks : InternalKnots(t)
    \/ \E t \in Tasks : BezierCurve(t)
    \/ \E t \in Tasks : Distortion(t)
    \/ \E t \in Tasks : Easing(t)
    \/ \E t \in Tasks : Dispatch(t)
    \/ \E t \in Tasks : Wake(t)
    \/ \E t \in Tasks : Commit(t)
    \/ GetPosition
    \/ \E p \in Positions : SetPosition(p)
    \/ \E t \in Tasks : Return(t)

SpecConfig == InitConfig /\ [][NextConfig]_vars

\* ------------------------------------------------- moves run to their end

\* Durations given to move_to where every sleep and every dispatch completes,
\* in ms: trajectories of 2, 3 and 6 points.
LiveDurations == {Some(0), Some(50), Some(100)}

\* The steps of coroutine t inside a call of move_to, and its return.
MoveStep(t) ==
    \/ Skip(t)
    \/ TeleportTo(t)
    \/ TeleportCommit(t)
    \/ BeginTrajectory(t)
    \/ ResolveParameters(t)
    \/ InternalKnots(t)
    \/ BezierCurve(t)
    \/ Distortion(t)
    \/ Easing(t)
    \/ Dispatch(t)
    \/ Wake(t)
    \/ Commit(t)
    \/ Return(t)

\* move_to calls in either mode, never cancelled and with a sink that
\* completes every command.
NextLive ==
    \/ \E t \in Tasks, p \in Points, d \in LiveDurations : MoveTo(t, p, d)
    \/ \E t \in Tasks : MoveStep(t)

\* The event loop runs every coroutine that is ready: a coroutine whose sleep
\* has expired or whose command has completed takes its next step.
SpecLive == Init /\ [][NextLive]_vars /\ \A t \in Tasks : WF_vars(MoveStep(t))

\* ----------------------------------------------- the sink's view of moves

\* A MouseAPI whose sink records the latest move event it was given; none
\* yet.
InitSink == browser \in BrowserSettings /\ InitAPI /\ serial = TRUE /\ sink = None

\* Serialized calls of move_to, move_by, click, drag and scroll_wheel;
\* set_position is not called.  A call may be cancelled in a sleep, and the
\* sink may fail a command.
NextSink ==
    \/ \E t \in Tasks, p \in Points : MoveTo(t, p, Some(0))
    \/ \E t \in Tasks, c \in MoveByCalls : MoveBy(t, c[1], c[2])
    \/ \E t \in Tasks, c \in ClickCalls :
          Click(t, Some(c[1][1]), Some(c[1][2]), c[2], c[3], c[4])
    \/ \E t \in Tasks, b \in Buttons, c \in ClickCounts : Click(t, None, None, b, c, None)
    \/ \E t \in Tasks, c \in DragCalls : Drag(t, c[1], c[2], c[3], c[4], c[5])
    \/ \E t \in Tasks, dx \in Deltas, dy \in Deltas : ScrollWheel(t, dx, dy)
    \/ \E t \in Tasks : Skip(t)
    \/ \E t \in Tasks : TeleportTo(t)
    \/ \E t \in Tasks : TeleportFails(t)
    \/ \E t \in Tasks : TeleportCommit(t)
    \/ \E t \in Tasks : BeginTrajectory(t)
    \/ \E t \in Tasks : ResolveParameters(t)
    \/ \E t \in Tasks : InternalKnots(t)
    \/ \E t \in Tasks : BezierCurve(t)
    \/ \E t \in Tasks : Distortion(t)
    \/ \E t \in Tasks : Easing(t)
    \/ \E t \in Tasks : Dispatch(t)
    \/ \E t \in Tasks : DispatchFails(t)
    \/ \E t \in Tasks : Wake(t)
    \/ \E t \in Tasks : Cancel(t)
    \/ \E t \in Tasks : Commit(t)
    \/ \E t \in Tasks : Press(t)
    \/ \E t \in Tasks : CancelHold(t)
    \/ \E t \in Tasks : Release(t)
    \/ \E t \in Tasks : DragPress(t)
    \/ \E t \in Tasks : DragMove(t)
    \/ \E t \in Tasks : DragRelease(t)
    \/ \E t \in Tasks : Return(t)

SpecSink == InitSink /\ [][NextSink]_vars

\* ------------------------------------------------ two callers at a time

\* The stages of move_to that run without an await: from the call to the
\* first command of the playback nothing else runs on the event loop.
SyncStages == {"DistanceCheck", "Plan", "Knots", "Bezier", "Distort", "Ease"}

\* Coroutine t may take a step: no other coroutine is inside a synchronous
\* block.
Running(t) == \A u \in Tasks \ {t} : pc[u] \notin SyncStages

\* The host gathers two move_to calls: the second starts while the first has
\* not returned, and the results are collected when both calls are over.
Gathering(t) ==
    \A u \in Tasks \ {t} : (u > t => pc[u] = "Idle") /\ ~Finished(u)

Gathered == \A u \in Tasks : pc[u] = "Idle" \/ Finished(u)

\* The gathered calls, <<destination, duration>>: two points to every
\* destination, three points to (1, 0).
ConcurrentCalls == {<<p, Some(0)>> : p \in Points} \cup {<<<<100, 0>>, Some(50)>>}

\* A humanized MouseAPI whose callers do not serialize, with a sink that
\* records the latest move event.
InitConcurrent == browser = None /\ InitAPI /\ serial = FALSE /\ sink = None

NextConcurrent ==
    \/ \E t \in Tasks, c \in ConcurrentCalls :
          Running(t) /\ Gathering(t) /\ MoveTo(t, c[1], c[2])
    \/ \E t \in Tasks : Running(t) /\ Skip(t)
    \/ \E t \in Tasks : Running(t) /\ BeginTrajectory(t)
    \/ \E t \in Tasks : Running(t) /\ ResolveParameters(t)
    \/ \E t \in Tasks : Running(t) /\ InternalKnots(t)
    \/ \E t \in Tasks : Running(t) /\ BezierCurve(t)
    \/ \E t \in Tasks : Running(t) /\ Distortion(t)
    \/ \E t \in Tasks : Running(t) /\ Easing(t)
    \/ \E t \in Tasks : Running(t) /\ Dispatch(t)
    \/ \E t \in Tasks : Running(t) /\ Wake(t)
    \/ \E t \in Tasks : Running(t) /\ Commit(t)
    \/ \E t \in Tasks : Gathered /\ Return(t)

SpecConcurrent == InitConcurrent /\ [][NextConcurrent]_vars

\* --------------------------------- the trajectory pipeline, called directly

\* Largest target_points passed explicitly.
MaxTargetPoints == 3

\* Longest curve passed to apply_easing directly.
MaxCurveLen == 4

\* A long curve and a long output passed to apply_easing, so that interior
\* samples are skipped and repeated.
LongCurveLen == 9
LongTargetPoints == 7

\* Start and end points passed to generate_human_mouse_trajectory.
PureStarts == {<<0, 0>>, <<300, 50>>}

PureEnds == {<<0, 0>>, <<300, 50>>, <<-150, 475>>}

\* A curve of m points for apply_easing and apply_distortion.
Curve(m) == [i \in 1..m |-> <<i * Scale, i * i * Scale>>]

\* Parameters passed to generate_human_mouse_trajectory.
PureArgs ==
    {[knots_count |-> kc, target_points |-> tp,
      offset_boundary_x |-> ob[1], offset_boundary_y |-> ob[2],
      distortion_mean |-> dp[1], distortion_stdev |-> dp[2],
      distortion_frequency |-> dp[3], easing_func |-> None] :
        kc \in {None, Some(0), Some(2)},
        tp \in {None} \cup {Some(n) : n \in 0..MaxTargetPoints},
        ob \in {<<None, None>>, <<Some(0), Some(0)>>, <<Some(250), None>>},
        dp \in {<<None, None, None>>, <<Some(20), Some(0), Some(100)>>,
                <<Some(-30), Some(40), Some(150)>>, <<Some(70), None, None>>}}

\* Parameters passed to apply_distortion: <<mean, stdev, frequency>>, the
\* frequency in 1/100 (0, 1, inside and outside [0, 1]).
DistortionArgs ==
    {[NoArgs EXCEPT !.distortion_mean = Some(dp[1]), !.distortion_stdev = Some(dp[2]),
                    !.distortion_frequency = Some(dp[3])] :
        dp \in {<<20, 40, 0>>, <<-30, 0, 0>>, <<70, 0, 100>>, <<-30, 0, 100>>,
                <<0, 20, 100>>, <<20, 40, 25>>, <<20, 0, 150>>, <<20, 0, -10>>}}

\* Parameters passed to apply_easing.
EasingArgs ==
    {[NoArgs EXCEPT !.target_points = Some(n), !.easing_func = f] :
        n \in ((-1)..MaxTargetPoints) \cup {LongTargetPoints},
        f \in {None} \cup {Some(g) : g \in EasingCatalog \cup CustomEasings}}

\* Trajectories passed to _execute_trajectory: empty, one point, coinciding
\* points, paths with segments of 5, 7 and 0 px, and a path between the
\* fractional points (0.5, 0.5) and (3.5, 4.5).
ExecTrajectories ==
    {<<>>, <<<<100, 100>>>>, <<<<100, 100>>, <<100, 100>>>>,
     <<<<100, 100>>, <<100, 100>>, <<100, 100>>>>,
     <<<<0, 0>>, <<300, 400>>>>,
     <<<<0, 0>>, <<300, 400>>, <<1000, 400>>>>,
     <<<<0, 0>>, <<300, 400>>, <<300, 400>>, <<1000, 400>>>>,
     <<<<0, 0>>, <<0, 0>>, <<-300, -400>>, <<0, 0>>>>,
     <<<<50, 50>>, <<350, 450>>>>}

\* Durations passed to _execute_trajectory, in ms.
ExecDurations == {0, 100, 1000}

\* One direct call of a function of movement.py or of _execute_trajectory,
\* in coroutine 1.
InitTraj ==
    /\ cur = Origin
    /\ humanize = TRUE
    /\ browser = None
    /\ serial = TRUE
    /\ sink = Unwatched
    /\ knots = [t \in Tasks |-> <<>>]
    /\ sent = [t \in Tasks |-> 0]
    /\ slept = [t \in Tasks |-> NoDelay]
    /\ pending = [t \in Tasks |-> <<>>]
    /\ gesture = [t \in Tasks |-> None]
    /\ log = [t \in Tasks |-> <<>>]
    /\ position = None
    /\ lastMoved = None
    /\ \/ /\ op = [t \in Tasks |-> IF t = 1 THEN "generate_human_mouse_trajectory" ELSE "none"]
          /\ pc = [t \in Tasks |-> IF t = 1 THEN "Plan" ELSE "Idle"]
          /\ duration = [t \in Tasks |-> None]
          /\ trajectory = [t \in Tasks |-> <<>>]
          /\ \E f \in PureStarts, g \in PureEnds, a \in PureArgs :
                /\ start = [t \in Tasks |-> IF t = 1 THEN f ELSE Origin]
                /\ dest = [t \in Tasks |-> IF t = 1 THEN g ELSE Origin]
                /\ args = [t \in Tasks |-> IF t = 1 THEN a ELSE NoArgs]
          /\ points = [t \in Tasks |-> <<>>]
       \/ /\ op = [t \in Tasks |-> IF t = 1 THEN "apply_easing" ELSE "none"]
          /\ pc = [t \in Tasks |-> IF t = 1 THEN "Ease" ELSE "Idle"]
          /\ duration = [t \in Tasks |-> None]
          /\ trajectory = [t \in Tasks |-> <<>>]
          /\ start = [t \in Tasks |-> Origin]
          /\ dest = [t \in Tasks |-> Origin]
          /\ \E m \in (1..MaxCurveLen) \cup {LongCurveLen}, a \in EasingArgs :
                /\ points = [t \in Tasks |-> IF t = 1 THEN Curve(m) ELSE <<>>]
                /\ args = [t \in Tasks |-> IF t = 1 THEN a ELSE NoArgs]
       \/ /\ op = [t \in Tasks |-> IF t = 1 THEN "apply_distortion" ELSE "none"]
          /\ pc = [t \in Tasks |-> IF t = 1 THEN "Distort" ELSE "Idle"]
          /\ duration = [t \in Tasks |-> None]
          /\ trajectory = [t \in Tasks |-> <<>>]
          /\ start = [t \in Tasks |-> Origin]
          /\ dest = [t \in Tasks |-> Origin]
          /\ \E m \in 1..MaxCurveLen, a \in DistortionArgs :
                /\ points = [t \in Tasks |-> IF t = 1 THEN Curve(m) ELSE <<>>]
                /\ args = [t \in Tasks |-> IF t = 1 THEN a ELSE NoArgs]
       \/ /\ op = [t \in Tasks |-> IF t = 1 THEN "_execute_trajectory" ELSE "none"]
          /\ pc = [t \in Tasks |-> IF t = 1 THEN "Execute" ELSE "Idle"]
          /\ start = [t \in Tasks |-> Origin]
          /\ dest = [t \in Tasks |-> Origin]
          /\ points = [t \in Tasks |-> <<>>]
          /\ args = [t \in Tasks |-> NoArgs]
          /\ \E tr \in ExecTrajectories, d \in ExecDurations :
                /\ trajectory = [t \in Tasks |-> IF t = 1 THEN tr ELSE <<>>]
                /\ duration = [t \in Tasks |-> IF t = 1 THEN Some(d) ELSE None]
       \/ /\ \E f \in RandomizerFunctions : op = [t \in Tasks |-> IF t = 1 THEN f ELSE "none"]
          /\ pc = [t \in Tasks |-> IF t = 1 THEN "Random" ELSE "Idle"]
          /\ duration = [t \in Tasks |-> None]
          /\ trajectory = [t \in Tasks |-> <<>>]
          /\ start = [t \in Tasks |-> Origin]
          /\ dest = [t \in Tasks |-> Origin]
          /\ points = [t \in Tasks |-> <<>>]
          /\ args = [t \in Tasks |-> NoArgs]

NextTraj ==
    \/ \E t \in Tasks : Randomize(t)
    \/ \E t \in Tasks : ResolveParameters(t)
    \/ \E t \in Tasks : InternalKnots(t)
    \/ \E t \in Tasks : BezierCurve(t)
    \/ \E t \in Tasks : Distortion(t)
    \/ \E t \in Tasks : Easing(t)
    \/ \E t \in Tasks : EasingError(t)
    \/ \E t \in Tasks : Dispatch(t)
    \/ \E t \in Tasks : Wake(t)
    \/ \E t \in Tasks : Executed(t)

SpecTraj == InitTraj /\ [][NextTraj]_vars

\* ================================================================= claims

\* Squared distance, in fixed point squared.
DistSq(p, q) == (q[1] - p[1]) * (q[1] - p[1]) + (q[2] - p[2]) * (q[2] - p[2])

\* The stages of the humanized pipeline and playback.
PipelineStages == {"Plan", "Knots", "Bezier", "Distort", "Ease"}

PlaybackStages == {"Execute", "Suspend"}

\* The mouseMoved commands of the first n points of a trajectory.
MoveEvents(tr, n) == [i \in 1..n |-> MoveEvent(tr[i])]

\* C1: a move_to that returns normally from a position at distance >= 1
\* (exactly 1 included) leaves CursorState equal to the destination, in both
\* modes; get_position after such a move returns that destination.
C1_MoveReachesDestination ==
    /\ \A t \in Tasks :
          (pc[t] \in {"Skip", "Committed"} /\ DistSq(start[t], dest[t]) >= Scale * Scale)
              => cur = dest[t]
    /\ (position # None /\ lastMoved # None) => position = lastMoved

\* A humanized move over exactly 1 px has been committed.
C1_Witness ==
    /\ humanize
    /\ pc[1] = "Committed"
    /\ DistSq(start[1], dest[1]) = Scale * Scale
    /\ cur = dest[1]

\* C2: when the destination is closer than 1 px the move goes to Skip: it
\* never enters the teleport, the pipeline or the playback, sends nothing
\* and leaves CursorState as it was read.
C2_EarlyExit ==
    \A t \in Tasks :
        /\ pc[t] = "Skip" => log[t] = <<>> /\ cur = start[t]
        /\ (pc[t] \in PipelineStages \cup PlaybackStages \cup {"Teleport", "Committed", "Cancelled"})
              => DistSq(start[t], dest[t]) >= Scale * Scale

\* A move to a different point closer than 1 px has been skipped.
C2_Witness ==
    /\ pc[1] = "Skip"
    /\ op[1] = "move_to"
    /\ dest[1] # cur
    /\ DistSq(cur, dest[1]) < Scale * Scale

\* C3: with humanize off the pipeline and the playback are never entered, no
\* coroutine is ever suspended in a sleep of the playback, and a move over
\* >= 1 px sends exactly one mouseMoved command, at the destination, before
\* CursorState is set to the destination.
C3_TeleportSingleEvent ==
    ~humanize =>
        \A t \in Tasks :
            /\ pc[t] \notin PipelineStages \cup PlaybackStages \cup {"Cancelled"}
            /\ trajectory[t] = <<>>
            /\ pc[t] = "Teleport" => log[t] = <<MoveEvent(dest[t])>> /\ cur = start[t]
            /\ pc[t] = "Committed" => log[t] = <<MoveEvent(dest[t])>> /\ cur = dest[t]

\* A teleport has completed.
C3_Witness ==
    /\ ~humanize
    /\ pc[1] = "Committed"
    /\ op[1] = "move_to"
    /\ log[1] = <<MoveEvent(dest[1])>>

\* C4: a completed humanized move has sent as many commands as the resolved
\* target_points, which is the length of the trajectory and is at least 2,
\* for every duration (0 included).
C4_HumanizedDispatchCount ==
    \A t \in Tasks :
        (humanize /\ pc[t] = "Committed") =>
            /\ Len(log[t]) = Val(args[t].target_points)
            /\ Len(log[t]) = Len(trajectory[t])
            /\ Len(log[t]) > 1
            /\ \A i \in 1..Len(log[t]) : log[t][i].type = "mouseMoved"

\* A humanized move of duration 0 has completed.
C4_Witness ==
    /\ humanize
    /\ pc[1] = "Committed"
    /\ duration[1] = Some(0)
    /\ Len(log[1]) = 2

\* C5: the trajectory returned by generate_human_mouse_trajectory starts at
\* from_point and ends at to_point, exactly.
C5_TrajectoryEndpoints ==
    (op[1] = "generate_human_mouse_trajectory" /\ pc[1] = "Done") =>
        /\ trajectory[1][1] = start[1]
        /\ trajectory[1][Len(trajectory[1])] = dest[1]

\* A trajectory with a point that is neither end point has been returned.
C5_Witness ==
    /\ op[1] = "generate_human_mouse_trajectory"
    /\ pc[1] = "Done"
    /\ start[1] # dest[1]
    /\ \E i \in 1..Len(trajectory[1]) : trajectory[1][i] \notin {start[1], dest[1]}
    /\ trajectory[1][1] = start[1]
    /\ trajectory[1][Len(trajectory[1])] = dest[1]

\* C6: apply_easing returns max(N, 2) points for a requested count N and a
\* non-empty curve of any length, and so does the whole pipeline.
C6_EasingLength ==
    (op[1] \in {"generate_human_mouse_trajectory", "apply_easing"} /\ pc[1] = "Done") =>
        Len(trajectory[1]) = IF Val(args[1].target_points) >= 2
                             THEN Val(args[1].target_points) ELSE 2

\* apply_easing has returned 2 points for a requested count below 2 and a
\* curve of one point.
C6_Witness ==
    /\ op[1] = "apply_easing"
    /\ pc[1] = "Done"
    /\ Val(args[1].target_points) < 2
    /\ Len(trajectory[1]) = 2

\* C7: a move is cancelled only in a sleep of the playback; the cancellation
\* sends nothing and leaves CursorState at its value before the call, and
\* the only step of a cancelled call is its return: no further point is
\* sent and the final CursorState update does not run.
C7_CancelStops ==
    [][\A t \in Tasks :
          /\ (pc'[t] = "Cancelled" /\ pc[t] # "Cancelled") =>
                /\ pc[t] = "Suspend"
                /\ log'[t] = log[t]
                /\ cur' = start[t]
                /\ sent'[t] < Len(trajectory'[t])
          /\ pc[t] = "Cancelled" =>
                /\ cur' = cur
                /\ pc'[t] = "Idle"]_vars

\* A move has been cancelled after two or more points were sent.
C7_Witness ==
    /\ pc[1] = "Cancelled"
    /\ sent[1] >= 2
    /\ Len(log[1]) = sent[1]
    /\ cur = start[1]

\* C8: after a cancellation with k points sent (1 <= k < N) CursorState is
\* the last point sent, trajectory[k-1].
C8_CursorAtLastDispatched ==
    \A t \in Tasks :
        (pc[t] = "Cancelled" /\ sent[t] >= 1 /\ sent[t] < Len(trajectory[t]))
            => cur = trajectory[t][sent[t]]

\* C9: during a humanized move CursorState keeps the value read before
\* planning through every stage of the pipeline and every dispatch and sleep
\* of the playback, while the sink has received the points sent so far; it
\* is written once, when all points are sent.
C9_SingleWrite ==
    \A t \in Tasks :
        /\ pc[t] \in PipelineStages => cur = start[t] /\ log[t] = <<>>
        /\ pc[t] \in PlaybackStages =>
              /\ cur = start[t]
              /\ log[t] = MoveEvents(trajectory[t], sent[t])
        /\ (humanize /\ pc[t] = "Committed") =>
              /\ cur = dest[t]
              /\ sent[t] = Len(trajectory[t])

\* The playback is suspended after a point other than the start was sent.
C9_Witness ==
    /\ pc[1] = "Suspend"
    /\ sent[1] >= 2
    /\ trajectory[1][sent[1]] # start[1]
    /\ cur = start[1]

\* The step is the final update of a playback or the update of a teleport.
EngineWrite(t) ==
    /\ pc'[t] = "Committed"
    /\ cur' = dest[t]
    /\ \/ pc[t] = "Execute" /\ sent[t] = Len(trajectory[t])
       \/ pc[t] = "Teleport"

\* The step is a set_position call.
SetPositionStep == pc' = pc /\ log' = log /\ \A t \in Tasks : pc[t] = "Idle"

\* C10 as stated: CursorState changes only at the end of a playback or at a
\* teleport.
C10_OnlyEngineMutates ==
    [][cur' # cur => \E t \in Tasks : EngineWrite(t)]_vars

\* C10 amended: CursorState changes only at the end of a playback, at a
\* teleport or by set_position; click at the current position,
\* scroll_wheel, get_position and a skipped move leave it unchanged.
C10_OnlyEngineOrSetPosition ==
    [][cur' # cur => (\E t \in Tasks : EngineWrite(t)) \/ SetPositionStep]_vars

\* A click at the current position has completed away from the origin.
C10_Witness ==
    /\ op[1] = "click"
    /\ pc[1] = "Done"
    /\ cur # Origin
    /\ Len(log[1]) = 2

\* ------------------------------------------------------- gestures (C11-C15)

\* The positions in a log of the commands of one type.
Indices(lg, type) == {i \in 1..Len(lg) : lg[i].type = type}

\* The positions of the mouseMoved commands that follow a press.
MovesAfterPress(lg) ==
    {i \in Indices(lg, "mouseMoved") : \E j \in Indices(lg, "mousePressed") : j < i}

\* C11: a drag sends mouseMoved commands only until its press; the press
\* follows every command of the move to the start; from then on there is
\* exactly one press; no release is sent before the drag move returned; and
\* a drag that returned normally has sent exactly one release, as its last
\* command, so that every command of the drag move lies between the two.
C11_DragSequence ==
    \A t \in Tasks :
        op[t] = "drag" =>
            LET presses == Indices(log[t], "mousePressed")
                releases == Indices(log[t], "mouseReleased")
                moves == Indices(log[t], "mouseMoved")
            IN  /\ presses \cup releases \cup moves = 1..Len(log[t])
                /\ ~Val(gesture[t]).pressed => presses = {} /\ releases = {}
                /\ Val(gesture[t]).pressed => Cardinality(presses) = 1
                /\ pc[t] = "Pressed" => presses = {Len(log[t])}
                /\ pc[t] # "Done" => releases = {}
                /\ pc[t] = "Done" =>
                      /\ releases = {Len(log[t])}
                      /\ Cardinality(presses) = 1
                      /\ \A i \in presses : i < Len(log[t])

\* A humanized drag has returned after two or more moves before the press
\* and three or more between the press and the release.
C11_Witness ==
    /\ humanize
    /\ op[1] = "drag"
    /\ pc[1] = "Done"
    /\ \E i \in Indices(log[1], "mousePressed") : i >= 3 /\ Len(log[1]) >= i + 4
    /\ log[1][Len(log[1])].type = "mouseReleased"

\* C12 as stated: every drag that returned normally has sent a mouseMoved
\* command between the press and the release and left CursorState at its
\* end point.
C12_DragReachesEnd ==
    \A t \in Tasks :
        (op[t] = "drag" /\ pc[t] = "Done") =>
            /\ MovesAfterPress(log[t]) # {}
            /\ cur = Val(gesture[t]).to_point

\* C12 amended: when the end point is at distance >= 1 of the CursorState
\* read by the drag move, the drag has sent a mouseMoved command between the
\* press and the release and left CursorState at the end point; when it is
\* closer, no command lies between the two and CursorState is as it was read.
C12_DragReachesFarEnd ==
    \A t \in Tasks :
        (op[t] = "drag" /\ pc[t] = "Done") =>
            IF DistSq(start[t], Val(gesture[t]).to_point) >= Scale * Scale
            THEN /\ MovesAfterPress(log[t]) # {}
                 /\ cur = Val(gesture[t]).to_point
            ELSE /\ MovesAfterPress(log[t]) = {}
                 /\ cur = start[t]

\* A drag between two points at distance >= 1 has returned at its end point.
C12_Witness ==
    /\ op[1] = "drag"
    /\ pc[1] = "Done"
    /\ DistSq(Val(gesture[1]).from_point, Val(gesture[1]).to_point) >= Scale * Scale
    /\ MovesAfterPress(log[1]) # {}
    /\ cur = Val(gesture[1]).to_point

\* C13: a click without coordinates sends nothing before the press; the
\* press is the command built by the call (requested button and click
\* count) at the CursorState; the release is the same command with type
\* mouseReleased; these two are all the call sends, and no step of the call
\* changes CursorState.
C13_ClickInPlace ==
    [][\A t \in Tasks :
          (op'[t] = "click" /\ pc[t] \in {"Idle", "Click", "Hold"} /\ pc'[t] # pc[t]
             /\ pc'[t] \in {"Click", "Hold", "Done"}) =>
                /\ cur' = cur
                /\ pc'[t] = "Click" =>
                      /\ log'[t] = <<>>
                      /\ Len(pending'[t]) = 2
                      /\ pending'[t][1].type = "mousePressed"
                      /\ pending'[t][2] = [pending'[t][1] EXCEPT !.type = "mouseReleased"]
                /\ pc'[t] = "Hold" =>
                      log'[t] = <<[pending[t][1] EXCEPT !.x = cur[1], !.y = cur[2]]>>
                /\ pc'[t] = "Done" =>
                      log'[t] = <<log[t][1], [log[t][1] EXCEPT !.type = "mouseReleased"]>>]_vars

\* A double click with the right button has completed in place, away from
\* the origin.
C13_Witness ==
    /\ op[1] = "click"
    /\ pc[1] = "Done"
    /\ cur # Origin
    /\ log[1] = <<MouseEvent("mousePressed", cur, "right", 2, 0, 0),
                  MouseEvent("mouseReleased", cur, "right", 2, 0, 0)>>

\* C14: a click(x, y) that returned has sent the press and the release, as
\* its last two commands, at (x, y), and left CursorState at (x, y).
C14_ClickAtCoordinates ==
    \A t \in Tasks :
        (op[t] = "click" /\ pc[t] = "Done") =>
            LET n == Len(log[t])
            IN  /\ n >= 2
                /\ log[t][n - 1].type = "mousePressed"
                /\ log[t][n].type = "mouseReleased"
                /\ <<log[t][n - 1].x, log[t][n - 1].y>> = dest[t]
                /\ <<log[t][n].x, log[t][n].y>> = dest[t]
                /\ cur = dest[t]

\* The stages of a call of move_to.
MoveStages == {"DistanceCheck", "Teleport"} \cup PipelineStages \cup PlaybackStages

\* C15: a step of move_to that sends a command sends exactly one, of type
\* mouseMoved, with no button; a move_to or move_by call has sent mouseMoved
\* commands only.
C15_MoveSendsMoves ==
    [][\A t \in Tasks :
          /\ (pc[t] \in MoveStages /\ log'[t] # log[t]) =>
                /\ Len(log'[t]) = Len(log[t]) + 1
                /\ SubSeq(log'[t], 1, Len(log[t])) = log[t]
                /\ log'[t][Len(log'[t])].type = "mouseMoved"
                /\ log'[t][Len(log'[t])].button = "none"
          /\ op'[t] \in {"move_to", "move_by"} =>
                \A i \in 1..Len(log'[t]) : log'[t][i].type = "mouseMoved"]_vars

\* A move_by has completed in teleport mode, and one in humanized mode.
C15_Witness ==
    /\ op[1] = "move_by"
    /\ pc[1] = "Committed"
    /\ Len(log[1]) >= 1
    /\ \A i \in 1..Len(log[1]) : log[1][i].type = "mouseMoved"

\* ---------------------------------------- parameters, distortion (C16-C20)

\* The parameters of generate_human_mouse_trajectory the caller may supply.
MovementParameters ==
    {"knots_count", "target_points", "offset_boundary_x", "offset_boundary_y",
     "distortion_mean", "distortion_stdev", "distortion_frequency"}

\* C16: when the parameters are resolved, every parameter the caller
\* supplied keeps the supplied value, whichever others are omitted.
C16_SuppliedParametersUsed ==
    [][(op[1] = "generate_human_mouse_trajectory" /\ pc[1] = "Plan" /\ pc'[1] = "Knots") =>
          \A f \in MovementParameters : args[1][f] # None => args'[1][f] = args[1][f]]_vars

\* apply_distortion, called directly, has returned.
DistortionReturned == op[1] = "apply_distortion" /\ pc[1] = "Done"

\* C17: with distortion_frequency = 0 the list returned by apply_distortion
\* equals its input, for any mean and standard deviation.
C17_ZeroFrequencyIdentity ==
    (DistortionReturned /\ args[1].distortion_frequency = Some(0)) =>
        trajectory[1] = points[1]

\* C18: with distortion_frequency = 1 and distortion_stdev = 0 every
\* interior point of the input comes back with the same x and with y raised
\* by distortion_mean exactly.
C18_FullFrequencyShift ==
    (DistortionReturned /\ args[1].distortion_frequency = Some(Scale)
        /\ args[1].distortion_stdev = Some(0)) =>
        \A i \in 2..(Len(points[1]) - 1) :
            /\ i < Len(trajectory[1])
            /\ trajectory[1][i] = <<points[1][i][1],
                                    points[1][i][2] + Val(args[1].distortion_mean)>>

\* Two interior points have been raised by a mean other than 0.
C18_Witness ==
    /\ DistortionReturned
    /\ args[1].distortion_frequency = Some(Scale)
    /\ args[1].distortion_stdev = Some(0)
    /\ Val(args[1].distortion_mean) # 0
    /\ Len(points[1]) >= 4
    /\ \A i \in 2..(Len(points[1]) - 1) :
          trajectory[1][i][2] = points[1][i][2] + Val(args[1].distortion_mean)

\* C19: the list returned by apply_distortion is as long as its input, for
\* every non-empty input, one of a single point included.
C19_DistortionKeepsLength ==
    DistortionReturned => Len(trajectory[1]) = Len(points[1])

\* C20: the first point returned is the first point of the input and the
\* last point returned is its last point; every point of the input comes
\* back with its x unchanged, and only interior points come back with
\* another y.
C20_DistortionFrame ==
    DistortionReturned =>
        /\ trajectory[1][1] = points[1][1]
        /\ trajectory[1][Len(trajectory[1])] = points[1][Len(points[1])]
        /\ \A i \in 1..Len(points[1]) :
              /\ i <= Len(trajectory[1])
              /\ trajectory[1][i][1] = points[1][i][1]
              /\ trajectory[1][i][2] # points[1][i][2] => (1 < i /\ i < Len(points[1]))

\* An interior point has come back with another y, and the same x.
C20_Witness ==
    /\ DistortionReturned
    /\ Len(points[1]) >= 3
    /\ \E i \in 2..(Len(points[1]) - 1) :
          /\ trajectory[1][i][2] # points[1][i][2]
          /\ trajectory[1][i][1] = points[1][i][1]
    /\ trajectory[1][1] = points[1][1]
    /\ trajectory[1][Len(trajectory[1])] = points[1][Len(points[1])]

\* What a call with distortion_frequency = 0.5 can return: the first and the
\* last point as given, every interior point either as given or with
\* mean - stdev or mean + stdev added to its y.
HalfFrequencyOutcomes(ps, mean, stdev) ==
    {<<ps[1]>> \o [i \in 1..(Len(ps) - 2) |-> <<ps[i + 1][1], ps[i + 1][2] + d[i]>>]
               \o <<ps[Len(ps)]>> :
        d \in [1..(Len(ps) - 2) -> {0, mean - stdev, mean + stdev}]}

\* C21: a distortion_frequency below 0 or above 1 is not rejected:
\* apply_distortion returns, and what it can return is exactly what it can
\* return for 0.5.  The boundary values are used as given: with 0 no interior
\* point is shifted, with 1 every interior point is.
C21_FrequencyOutOfRange ==
    \A t \in Tasks :
        op[t] = "apply_distortion" =>
            LET mean == Val(args[t].distortion_mean)
                stdev == Val(args[t].distortion_stdev)
                frequency == Val(args[t].distortion_frequency)
                Interior == 2..(Len(points[t]) - 1)
            IN  /\ (frequency < 0 \/ frequency > Scale) =>
                      /\ apply_distortion(points[t], mean, stdev, frequency)
                            = HalfFrequencyOutcomes(points[t], mean, stdev)
                      /\ pc[t] = "Done" =>
                            trajectory[t] \in HalfFrequencyOutcomes(points[t], mean, stdev)
                /\ (pc[t] = "Done" /\ frequency = 0) =>
                      \A i \in Interior : trajectory[t][i] = points[t][i]
                /\ (pc[t] = "Done" /\ frequency = Scale) =>
                      \A i \in Interior :
                          /\ trajectory[t][i][1] = points[t][i][1]
                          /\ trajectory[t][i][2] - points[t][i][2]
                                \in {mean - stdev, mean + stdev}

\* apply_distortion returned for a frequency above 1 with one interior point
\* shifted and the other one not.
C21_Witness ==
    /\ DistortionReturned
    /\ Val(args[1].distortion_frequency) > Scale
    /\ Len(points[1]) = 4
    /\ trajectory[1][2] # points[1][2]
    /\ trajectory[1][3] = points[1][3]

\* C22: each of the 14 easing functions of the catalog, and so each one the
\* random selection can return, gives 0 at t = 0 and 1 at t = 1; the first
\* point apply_easing returns is the first input point and the last one is
\* the last input point.
C22_EasingEndpoints ==
    /\ get_random_easing_function \subseteq EasingCatalog
    /\ Cardinality(EasingCatalog) = 14
    /\ \A t \in Tasks :
          (op[t] = "apply_easing" /\ pc[t] = "Done"
              /\ Val(args[t].easing_func) \notin CustomEasings) =>
              LET f == Val(args[t].easing_func)
                  d == Len(trajectory[t]) - 1
              IN  /\ f \in EasingCatalog
                  /\ Eased(f, 0, d)[1] = 0
                  /\ Eased(f, d, d)[1] = Eased(f, d, d)[2]
                  /\ trajectory[t][1] = points[t][1]
                  /\ trajectory[t][Len(trajectory[t])] = points[t][Len(points[t])]

\* apply_easing returned three points of a four-point curve eased by
\* ease_in_out_expo.
C22_Witness ==
    /\ op[1] = "apply_easing"
    /\ pc[1] = "Done"
    /\ args[1].easing_func = Some("ease_in_out_expo")
    /\ Len(points[1]) = 4
    /\ Len(trajectory[1]) = 3

\* The Bezier sampler has returned inside generate_human_mouse_trajectory.
BezierReturned == op[1] = "generate_human_mouse_trajectory" /\ pc[1] = "Distort"

\* max(|dx|, |dy|, 2) over the coordinate differences, in fixed point.
MaxDifference(p, q) == Max2(Max2(Abs(p[1] - q[1]), Abs(p[2] - q[2])), 2 * Scale)

\* C23 as stated: generate_bezier_curve_points returns exactly
\* max(|dx|, |dy|, 2) points, the first one the start and the last one the
\* end, for any list of interior knots.
C23_BezierCount ==
    BezierReturned =>
        /\ Len(points[1]) * Scale = MaxDifference(start[1], dest[1])
        /\ points[1][1] = start[1]
        /\ points[1][Len(points[1])] = dest[1]

\* C23, amended: generate_bezier_curve_points returns exactly the whole
\* part of max(|dx|, |dy|, 2) points (each difference truncated toward
\* zero), the first one the start and the last one the end, for any list of
\* interior knots, the empty list included.
C23_BezierTruncatedCount ==
    BezierReturned =>
        /\ Len(points[1]) * Scale <= MaxDifference(start[1], dest[1])
        /\ (Len(points[1]) + 1) * Scale > MaxDifference(start[1], dest[1])
        /\ points[1][1] = start[1]
        /\ points[1][Len(points[1])] = dest[1]

\* The sampler has returned 4 points for the differences 4.5 and 4.25, over
\* two interior knots.
C23_Witness ==
    /\ BezierReturned
    /\ start[1] = <<300, 50>>
    /\ dest[1] = <<-150, 475>>
    /\ args[1].knots_count = Some(2)
    /\ Len(points[1]) = 4

\* generate_internal_knots has returned inside generate_human_mouse_trajectory.
KnotsReturned == op[1] = "generate_human_mouse_trajectory" /\ pc[1] = "Bezier"

\* Truncation toward zero to a whole number of px, in fixed point.
Truncated(v) == IF v >= 0 THEN v - (v % Scale) ELSE -((-v) - ((-v) % Scale))

\* The range lo..hi of one axis, widened by 1 px when it collapses.
Widened(lo, hi) == IF lo >= hi THEN lo + Scale ELSE hi

\* C24 as stated: generate_internal_knots returns knots_count points, each
\* inside [min - offset, max + offset] on both axes, an axis whose range
\* collapses being widened by 1.
C24_KnotsInRectangle ==
    KnotsReturned =>
        /\ Len(knots[1]) = Val(args[1].knots_count)
        /\ \A i \in 1..Len(knots[1]) : \A c \in 1..2 :
              LET offset == Val(IF c = 1 THEN args[1].offset_boundary_x
                                         ELSE args[1].offset_boundary_y)
                  lo == Min2(start[1][c], dest[1][c]) - offset
                  hi == Max2(start[1][c], dest[1][c]) + offset
              IN  lo <= knots[1][i][c] /\ knots[1][i][c] <= Widened(lo, hi)

\* C24, amended: generate_internal_knots returns knots_count points (none
\* for knots_count = 0), each with whole-number coordinates inside
\* [int(min - offset), int(max + offset)] on both axes, int truncating
\* toward zero; an axis whose truncated range collapses gets the upper bound
\* lower bound + 1.
C24_KnotsInTruncatedRectangle ==
    KnotsReturned =>
        /\ Len(knots[1]) = Val(args[1].knots_count)
        /\ \A i \in 1..Len(knots[1]) : \A c \in 1..2 :
              LET offset == Val(IF c = 1 THEN args[1].offset_boundary_x
                                         ELSE args[1].offset_boundary_y)
                  lo == Truncated(Min2(start[1][c], dest[1][c]) - offset)
                  hi == Truncated(Max2(start[1][c], dest[1][c]) + offset)
              IN  /\ knots[1][i][c] % Scale = 0
                  /\ lo <= knots[1][i][c]
                  /\ knots[1][i][c] <= Widened(lo, hi)

\* Two knots were returned for the y range [0.5, 4.75] with offset 0, one of
\* them at y = 0.
C24_Witness ==
    /\ KnotsReturned
    /\ start[1] = <<300, 50>>
    /\ dest[1] = <<-150, 475>>
    /\ args[1].offset_boundary_y = Some(0)
    /\ Len(knots[1]) = 2
    /\ knots[1][1][2] = 0

\* C25: the mode is read at construction, humanized when the browser has no
\* setting, and never again: _humanize keeps its value whatever the host
\* does to the browser's setting, and every later move_to teleports or
\* plans a trajectory by that value.
C25_ModeReadOnce ==
    /\ humanize = GetAttr(browser, TRUE)
    /\ [][/\ humanize' = humanize
          /\ \A t \in Tasks :
                pc[t] = "DistanceCheck" =>
                    /\ pc'[t] = "Teleport" => ~humanize
                    /\ pc'[t] = "Plan" => humanize]_vars

\* A move_to plans a humanized trajectory after the host has switched the
\* browser's setting off.
C25_Witness ==
    /\ pc[1] = "Plan"
    /\ humanize
    /\ browser = Some(FALSE)

\* C26: move_by(dx, dy) is move_to(cx + dx, cy + dy) for the CursorState
\* (cx, cy) at the call: with an offset of length >= 1 the call ends with
\* CursorState (cx + dx, cy + dy), with a shorter one it sends nothing and
\* leaves CursorState as it was.
C26_MoveByOffset ==
    \A t \in Tasks :
        (op[t] = "move_by" /\ pc[t] \in {"Skip", "Committed"}) =>
            LET delta == <<Val(gesture[t]).delta_x, Val(gesture[t]).delta_y>>
                target == <<start[t][1] + delta[1], start[t][2] + delta[2]>>
            IN  /\ dest[t] = target
                /\ IF DistSq(Origin, delta) >= Scale * Scale
                   THEN pc[t] = "Committed" /\ cur = target /\ log[t] # <<>>
                   ELSE pc[t] = "Skip" /\ cur = start[t] /\ log[t] = <<>>

\* move_by(-2, -0.5) has moved the cursor from (3, 0.5) to (1, 0).
C26_Witness ==
    /\ op[1] = "move_by"
    /\ pc[1] = "Committed"
    /\ start[1] = <<300, 50>>
    /\ gesture[1] = Some([delta_x |-> -200, delta_y |-> -50])
    /\ cur = <<100, 0>>

\* C27: CursorState starts at (0, 0); set_position(x, y) makes it (x, y) and
\* sends nothing; no call changes it by starting or by returning, so it
\* persists from call to call; and the next move_to reads its starting point
\* from it and plans a path that begins there.
C27_SetPosition ==
    /\ cur = Origin
    /\ [][/\ ((\A t \in Tasks : pc[t] = "Idle") /\ pc' = pc /\ position' = None
                                                /\ browser' = browser) =>
                /\ lastMoved' = Some(cur')
                /\ log' = log
          /\ \A t \in Tasks :
                /\ (pc[t] = "Idle" /\ pc'[t] # "Idle") => cur' = cur
                /\ (pc[t] # "Idle" /\ pc'[t] = "Idle") => cur' = cur
                /\ (pc[t] = "DistanceCheck" /\ pc'[t] # "DistanceCheck") =>
                      start'[t] = cur
                /\ (pc[t] = "Ease" /\ pc'[t] = "Execute") =>
                      trajectory'[t][1] = cur]_vars

\* After set_position(2, 2) a move_to has planned a trajectory that starts
\* at (2, 2), and has sent nothing yet.
C27_Witness ==
    /\ pc[1] = "Execute"
    /\ start[1] = <<200, 200>>
    /\ cur = <<200, 200>>
    /\ trajectory[1][1] = <<200, 200>>
    /\ log[1] = <<>>

\* The length of the segment from p to q when it is a whole number of
\* fixed-point units, as it is for every segment of ExecTrajectories.
Length(p, q) == CHOOSE r \in 0..(Abs(q[1] - p[1]) + Abs(q[2] - p[2])) : r * r = DistSq(p, q)

\* The length of the path through the first n points of tr.
RECURSIVE PathLength(_, _)
PathLength(tr, n) == IF n <= 1 THEN 0 ELSE PathLength(tr, n - 1) + Length(tr[n - 1], tr[n])

\* C28: in a playback of N >= 2 points each delay slept is duration *
\* (segment length / path length) when the path length is positive and
\* duration / (N - 1) when it is 0, and the N - 1 delays of a full playback
\* sum to the duration.
C28_DelaysSumToDuration ==
    [][\A t \in Tasks :
          op[t] = "_execute_trajectory" =>
              LET tr == trajectory[t]
                  d == Val(duration[t])
                  delay == <<slept'[t][1] - slept[t][1], slept'[t][2]>>
              IN  /\ (pc[t] = "Suspend" /\ pc'[t] = "Execute") =>
                        /\ delay[2] > 0
                        /\ IF PathLength(tr, Len(tr)) > 0
                           THEN delay[1] * PathLength(tr, Len(tr))
                                  = d * Length(tr[sent[t]], tr[sent[t] + 1]) * delay[2]
                           ELSE delay[1] * (Len(tr) - 1) = d * delay[2]
                  /\ (pc'[t] = "Done" /\ Len(tr) >= 2) =>
                        slept'[t][1] = d * slept'[t][2]]_vars

\* A playback of four points over 1 s has ended: segments of 5, 0 and 7 px,
\* delays of 5/12, 0 and 7/12 s.
C28_Witness ==
    /\ op[1] = "_execute_trajectory"
    /\ pc[1] = "Done"
    /\ trajectory[1] = <<<<0, 0>>, <<300, 400>>, <<300, 400>>, <<1000, 400>>>>
    /\ duration[1] = Some(1000)
    /\ slept[1] = <<1200 * 1000, 1200>>
    /\ Len(log[1]) = 4

\* _generate_random_duration has returned.
DurationReturned(t) == op[t] = "_generate_random_duration" /\ pc[t] = "Done"

C30_DefaultDurationRange ==
    \A t \in Tasks :
        (DurationReturned(t) /\ Val(gesture[t]).min_duration = None
                             /\ Val(gesture[t]).max_duration = None) =>
            700 <= Val(duration[t]) /\ Val(duration[t]) <= 2000

\* ----------------------------------------------- playback, easing (C31-C33)

\* C31: _execute_trajectory sends the points of the trajectory in order and
\* all of them: point 0 first, with no sleep before it; every later point
\* after exactly one sleep, which begins right after the point before it was
\* sent; what the sink has received is, element for element, the trajectory
\* as far as it was sent, with the coordinates as given, and the whole
\* trajectory when the call returns.
C31_DispatchInOrder ==
    [][\A t \in Tasks :
          (op[t] = "_execute_trajectory" /\ <<pc'[t], log'[t], sent'[t]>> # <<pc[t], log[t], sent[t]>>) =>
              LET tr == trajectory[t]
              IN  /\ trajectory'[t] = tr
                  /\ log'[t] # log[t] =>
                        /\ pc[t] = "Execute"
                        /\ sent'[t] = sent[t] + 1
                        /\ log'[t] = Append(log[t], MoveEvent(tr[sent[t] + 1]))
                        /\ log'[t] = MoveEvents(tr, sent'[t])
                  /\ (pc[t] = "Execute" /\ sent[t] = 0 /\ tr # <<>>) =>
                        /\ slept[t] = NoDelay
                        /\ log'[t] = <<MoveEvent(tr[1])>>
                  /\ (pc[t] = "Execute" /\ sent[t] < Len(tr)) => log'[t] # log[t]
                  /\ pc'[t] = "Suspend" => (log'[t] # log[t] /\ sent'[t] < Len(tr))
                  /\ (pc'[t] = "Execute" /\ sent'[t] > 0 /\ sent'[t] < Len(tr)) =>
                        pc[t] = "Suspend"
                  /\ pc[t] = "Suspend" =>
                        (pc'[t] = "Execute" /\ log'[t] = log[t] /\ sent'[t] = sent[t])
                  /\ pc'[t] = "Done" =>
                        (sent[t] = Len(tr) /\ log'[t] = MoveEvents(tr, Len(tr)))]_vars

\* A playback of four points has returned: the second point repeats the
\* first and the last one returns to it, and the sink received all four.
C31_Witness ==
    /\ op[1] = "_execute_trajectory"
    /\ pc[1] = "Done"
    /\ trajectory[1] = <<<<0, 0>>, <<0, 0>>, <<-300, -400>>, <<0, 0>>>>
    /\ log[1] = MoveEvents(trajectory[1], 4)
    /\ slept[1] # NoDelay

\* The index clamped into [0, len - 1].
Clamped(index, len) == Max2(0, Min2(index, len - 1))

\* C32: apply_easing does not raise, whatever the easing function, and its
\* i-th output is points[index] for index = int(f(i / (N - 1)) * (M - 1))
\* clamped into [0, M - 1].
C32_ClampedSelection ==
    \A t \in Tasks :
        op[t] = "apply_easing" =>
            /\ pc[t] # "Raised"
            /\ pc[t] = "Done" =>
                  \A i \in 1..Len(trajectory[t]) :
                      trajectory[t][i] =
                          points[t][Clamped(EasingIndex(Val(args[t].easing_func), i - 1,
                                                        Len(trajectory[t]), Len(points[t])),
                                            Len(points[t])) + 1]

\* A function of the Parameter Randomizer, called directly, returns.
Randomized(t, f) == op[t] = f /\ pc[t] = "Random" /\ pc'[t] = "Done"

StageOf(p) ==
    CASE p \in {"Plan", "Knots", "Bezier"} -> "Plan"
      [] p \in {"Execute", "Suspend", "Teleport"} -> "Execute"
      [] OTHER -> p

\* The order of the stages of a humanized call, and of a teleport, which
\* bypasses Plan, Distort and Ease.
StageOrder(humanized) ==
    {<<"Idle", "DistanceCheck">>, <<"DistanceCheck", "Skip">>, <<"Skip", "Idle">>,
     <<"Execute", "Committed">>, <<"Committed", "Idle">>}
    \cup (IF humanized
          THEN {<<"DistanceCheck", "Plan">>, <<"Plan", "Distort">>, <<"Distort", "Ease">>,
                <<"Ease", "Execute">>}
          ELSE {<<"DistanceCheck", "Execute">>})

\* C34: a call of move_to goes Idle -> DistanceCheck -> (Skip | Plan ->
\* Distort -> Ease -> Execute -> Committed) -> Idle, each stage entered from
\* the one before it and never again (a teleport goes from DistanceCheck to
\* its single dispatch); a humanized call sends N points with a sleep after
\* each but the last, N being the resolved target_points, then sets
\* CursorState to the destination; and when no sleep is cancelled and every
\* command completes, every call returns.
C34_MoveStateMachine ==
    /\ [][\A t \in Tasks :
             /\ StageOf(pc'[t]) # StageOf(pc[t]) =>
                   <<StageOf(pc[t]), StageOf(pc'[t])>> \in StageOrder(humanize)
             /\ (pc[t] = "Execute" /\ pc'[t] # "Execute") =>
                   IF sent[t] < Len(trajectory[t])
                   THEN /\ pc'[t] = "Suspend"
                        /\ sent'[t] = sent[t] + 1
                        /\ sent'[t] < Len(trajectory[t])
                        /\ Len(log'[t]) = Len(log[t]) + 1
                   ELSE /\ pc'[t] = "Committed"
                        /\ cur' = dest[t]
                        /\ Len(log[t]) = Val(args[t].target_points)
                        /\ Len(trajectory[t]) = Val(args[t].target_points)
             /\ pc[t] = "Suspend" =>
                   (pc'[t] \in {"Suspend", "Execute"} /\ sent'[t] = sent[t] /\ log'[t] = log[t])
             /\ (pc[t] = "Execute" /\ pc'[t] = "Execute") =>
                   \/ <<sent'[t], log'[t]>> = <<sent[t], log[t]>>
                   \/ sent'[t] = Len(trajectory[t]) /\ sent'[t] = sent[t] + 1
                         /\ Len(log'[t]) = Len(log[t]) + 1]_vars
    /\ \A t \in Tasks : (pc[t] = "DistanceCheck") ~> (pc[t] = "Idle")

\* A humanized move of six points has sent them all and set CursorState to
\* its destination.
C34_Witness ==
    /\ humanize
    /\ pc[1] = "Committed"
    /\ Len(trajectory[1]) = 6
    /\ Len(log[1]) = 6
    /\ cur = dest[1]
    /\ cur # start[1]

\* The call of coroutine t is over and returns normally.
ReturnsNormally(t) ==
    \/ pc[t] = "Done"
    \/ pc[t] \in {"Skip", "Committed"} /\ op[t] \in {"move_to", "move_by"}

\* C35: with serialized calls and no set_position, whenever a call of
\* move_to, move_by, click, drag or scroll_wheel returns normally,
\* CursorState is the point of the latest move event the sink was given, or
\* (0, 0) when it was given none.
C35_CursorAtLastMove ==
    \A t \in Tasks :
        ReturnsNormally(t) => cur = (IF sink = None THEN Origin ELSE Val(sink))

\* The call of coroutine t has read CursorState and has not yet written it.
InFlight(t) == pc[t] \in {"Plan", "Knots", "Bezier", "Distort", "Ease", "Execute", "Suspend"}

\* C36: two humanized move_to calls in flight at once have planned from the
\* same CursorState, which is still the current one; the commands each call
\* has issued are the points of its own trajectory in order, all N of them
\* once it has committed; CursorState changes only when a call commits, to
\* that call's destination, so the call committing last decides it.
C36_ConcurrentMoves ==
    /\ []((InFlight(1) /\ InFlight(2)) => (start[1] = start[2] /\ start[1] = cur))
    /\ [](\A t \in Tasks :
             /\ pc[t] \in {"Execute", "Suspend"} =>
                   log[t] = MoveEvents(trajectory[t], sent[t])
             /\ pc[t] = "Committed" =>
                   /\ Len(trajectory[t]) = Val(args[t].target_points)
                   /\ log[t] = MoveEvents(trajectory[t], Len(trajectory[t])))
    /\ [][/\ cur' # cur => \E t \in Tasks : pc[t] = "Execute" /\ pc'[t] = "Committed"
          /\ \A t \in Tasks : (pc[t] = "Execute" /\ pc'[t] = "Committed") => cur' = dest[t]]_vars

\* Both calls planned from (0, 0), one of them three points; both have
\* committed, and CursorState is the destination of coroutine 1 while the last
\* move event the sink was given is the last point of coroutine 2.
C36_Witness ==
    /\ pc[1] = "Committed" /\ pc[2] = "Committed"
    /\ start[1] = Origin /\ start[2] = Origin
    /\ Len(trajectory[1]) = 3
    /\ dest[1] # dest[2]
    /\ cur = dest[1]
    /\ sink = Some(dest[2])

\* The coordinates carried by the last command coroutine t has issued.
LastAt(t) == <<log[t][Len(log[t])].x, log[t][Len(log[t])].y>>

\* C37 as stated: the press and the release of a drag carry CursorState as
\* it is when they are sent.
C37_DragAtCursorState ==
    \A t \in Tasks :
        (op[t] = "drag" /\ pc[t] \in {"Pressed", "Done"}) => LastAt(t) = cur

\* C37, amended: the press of a drag carries (from_x, from_y) and the
\* release (to_x, to_y); that is CursorState when the move before it was
\* carried out, and a point less than 1 px from CursorState when the move was
\* skipped.
C37_DragCoordinates ==
    [][\A t \in Tasks :
          (op[t] = "drag" /\ pc'[t] \in {"Pressed", "Done"} /\ pc'[t] # pc[t]) =>
              /\ Len(log'[t]) = Len(log[t]) + 1
              /\ log'[t][Len(log'[t])].type =
                    (IF pc'[t] = "Pressed" THEN "mousePressed" ELSE "mouseReleased")
              /\ LastAt(t)' = (IF pc'[t] = "Pressed" THEN Val(gesture[t]).from_point
                                                     ELSE Val(gesture[t]).to_point)
              /\ pc[t] = "Committed" => LastAt(t)' = cur'
              /\ pc[t] = "Skip" => DistSq(cur', LastAt(t)') < Scale * Scale]_vars

\* A drag whose move to the start was skipped has pressed at its start
\* point, which is not CursorState.
C37_Witness ==
    /\ op[1] = "drag"
    /\ pc[1] = "Pressed"
    /\ Len(log[1]) = 1
    /\ LastAt(1) = Val(gesture[1]).from_point
    /\ LastAt(1) # cur

\* C38: when a command of a move fails, in either mode, the failing command
\* is the last one the move issues, the call ends with the error (it never
\* reaches the CursorState update and does nothing more before it returns),
\* and CursorState is the value the move started from.
C38_FailedMoveStops ==
    /\ [](\A t \in Tasks : pc[t] = "Failed" => cur = start[t])
    /\ [][\A t \in Tasks :
             /\ (pc'[t] = "Failed" /\ pc[t] # "Failed") =>
                   /\ pc[t] \in {"Execute", "DistanceCheck"}
                   /\ log'[t] = log[t]
                   /\ sent'[t] = sent[t]
                   /\ cur' = cur
             /\ pc[t] = "Failed" =>
                   /\ pc'[t] \in {"Failed", "Idle"}
                   /\ cur' = cur
                   /\ pc'[t] = "Failed" => log'[t] = log[t]]_vars

\* A humanized move failed at its third command: two points went out, the
\* second away from the start, and CursorState is still the start.
C38_Witness ==
    /\ humanize
    /\ pc[1] = "Failed"
    /\ sent[1] = 2
    /\ Len(log[1]) = 2
    /\ Len(trajectory[1]) > 2
    /\ trajectory[1][2] # start[1]
    /\ cur = start[1]

\* C39: once a click or drag call is over, however it ended, every press
\* command it issued is followed by a release command for the same button.
C39_PressReleased ==
    \A t \in Tasks :
        (op[t] \in {"click", "drag"} /\ Finished(t)) =>
            \A i \in 1..Len(log[t]) :
                log[t][i].type = "mousePressed" =>
                    \E j \in (i + 1)..Len(log[t]) :
                        /\ log[t][j].type = "mouseReleased"
                        /\ log[t][j].button = log[t][i].button

\* The place of point p in a list of distinct points.
PositionOf(ps, p) == CHOOSE k \in 1..Len(ps) : ps[k] = p

\* C40: with an easing function the random selection can return, the points
\* apply_easing returns are input points taken at non-decreasing places: the
\* result never steps back to an earlier point of the curve.
C40_EasingMonotone ==
    \A t \in Tasks :
        (op[t] = "apply_easing" /\ pc[t] = "Done"
            /\ Val(args[t].easing_func) \in get_random_easing_function) =>
            \A i \in 1..(Len(trajectory[t]) - 1) :
                /\ \E k \in 1..Len(points[t]) : points[t][k] = trajectory[t][i]
                /\ \E k \in 1..Len(points[t]) : points[t][k] = trajectory[t][i + 1]
                /\ PositionOf(points[t], trajectory[t][i])
                      <= PositionOf(points[t], trajectory[t][i + 1])

\* apply_easing returned seven points of a nine-point curve eased by
\* ease_in_out_cubic: a point is repeated and a point is skipped.
C40_Witness ==
    /\ op[1] = "apply_easing"
    /\ pc[1] = "Done"
    /\ args[1].easing_func = Some("ease_in_out_cubic")
    /\ Len(points[1]) = LongCurveLen
    /\ Len(trajectory[1]) = LongTargetPoints
    /\ \E i \in 1..(Len(trajectory[1]) - 1) : trajectory[1][i] = trajectory[1][i + 1]
    /\ \E k \in 1..Len(points[1]) : \A i \in 1..Len(trajectory[1]) : trajectory[1][i] # points[1][k]

====
